---- MODULE Spec2Model ----
(***************************************************************************)
(* ArcadeDB connector (src/src/arcadedb_connector/client.py, utils.py).    *)
(*                                                                         *)
(* One ArcadeDBClient instance talking to one ArcadeDB server.  Every      *)
(* public method of the client is one action; the method body is an        *)
(* operator over a "world" record (client fields, server state, the        *)
(* requests issued by the call, the exception being propagated), so that   *)
(* nested calls (insert_dataframe -> save_version -> insert_data ->        *)
(* begin_transaction -> authenticate) compose as in the source.            *)
(*                                                                         *)
(* The server and the network are the environment: which requests of a     *)
(* call fail, and the shape of the answer to an aggregate over no rows,    *)
(* are inputs of the action.                                               *)
(***************************************************************************)
EXTENDS Integers, Sequences, FiniteSets, TLC

VARIABLES
    authenticated,  \* self._authenticated
    sessionToken,   \* self.session.headers["arcadedb-session-id"] (NoToken: header not set)
    srvOpen,        \* server: session ids of transactions begun and not yet committed / rolled back
    srvVersions,    \* server: the rows of the `versions` type, in insertion order
    nextTok,        \* server: next session id to hand out
    srvCatalogue,   \* server: the types and properties of the database
    clientTxOpen,   \* history: the last successful begin/commit/rollback request was a begin
    log,            \* the requests issued by the last call, in issue order, with their responses
    lastOp          \* the last call: method, arguments, exception raised, value returned

vars == <<authenticated, sessionToken, srvOpen, srvVersions, nextTok, srvCatalogue,
          clientTxOpen, log, lastOp>>

----------------------------------------------------------------------------
(* Bounds of the model *)

\* constants.BATCH_SIZE (imported at client.py:21; constants.py is not part of
\* the sources at hand, so its value is a parameter of the model)
BATCH_SIZE == 2
\* identifier codec: the longest bucket / table name and the largest version
MaxNameLen == 2
MaxVersion == 11
\* NEW_PAGE_SIZE of read_data / read_incremental_data (20000 at client.py:570
\* and client.py:474), scaled down
NEW_PAGE_SIZE == 2
\* the server hands out session ids 1..MaxTokens
MaxTokens == 2
\* the versions log holds at most this many rows
MaxEntries == 1
\* the longest string cell and the longest list cell of the literal encoder
MaxCellLen == 3
MaxItems == 2
\* the most conditions given to build_where_clause
MaxConditions == 2
\* the longest identifier given to sanitize_identifier
MaxIdentifierLen == 3

(* Program constants *)

\* client.py:687  `if len(columns_arr) < 10:`
ColumnThreshold == 10
\* client.py:688  `batch_size = 1000`
NarrowBatchSize == 1000

\* most rows a call is given: enough for three batches of BATCH_SIZE
MaxRows == 2 * BATCH_SIZE + 1
\* most rows of a table that is read: enough for three pages
MaxTableRows == 2 * NEW_PAGE_SIZE + 1

NoToken == 0

Min(a, b) == IF a < b THEN a ELSE b

----------------------------------------------------------------------------
(* Strings.  A string that the code inspects character by character is a   *)
(* sequence of one-character strings; a table name is kept as the list of  *)
(* its '#'-separated parts, which is what str.split("#") returns.          *)

Letters == {"a", "b", "c"}
DigitChars == {"0", "1", "2", "3", "4", "5", "6", "7", "8", "9"}
Digits == <<"0", "1", "2", "3", "4", "5", "6", "7", "8", "9">>

\* re.sub(r'[^a-zA-Z0-9_]', '_', identifier); prefix '_' before a leading
\* digit; "unnamed" for the empty string
sanitize_identifier(identifier) ==
    LET sanitized == [i \in DOMAIN identifier |->
                        IF identifier[i] \in Letters \cup DigitChars \cup {"_"}
                        THEN identifier[i] ELSE "_"]
        prefixed == IF sanitized # <<>> /\ sanitized[1] \in DigitChars
                    THEN <<"_">> \o sanitized ELSE sanitized
    IN IF prefixed = <<>> THEN <<"u", "n", "n", "a", "m", "e", "d">> ELSE prefixed

\* int(...) of a decimal numeral of one digit, as the server reads `version = 1`
DigitValue(s) == CHOOSE n \in 0..9 : Digits[n + 1] = s

\* f"`{schema_name}`" if "#" in schema_name else schema_name
Quote(schema_name) == [name |-> schema_name, quoted |-> Len(schema_name) > 1]

RECURSIVE Concat(_)
Concat(seqs) == IF seqs = <<>> THEN <<>> ELSE Head(seqs) \o Concat(Tail(seqs))

\* data.iloc[i:j] on a frame of rows (0-based, half open, clipped)
Slice(rows, i, j) ==
    IF i >= Len(rows) THEN <<>> ELSE SubSeq(rows, i + 1, Min(j, Len(rows)))

----------------------------------------------------------------------------
(* Exceptions: the class raised, the message as the chain of its prefixes  *)
(* (the message of a wrapper is "<prefix>: <str(e)>"), and the table       *)
(* names that occur in the message, and the status_code attribute.         *)

\* status_code=None, the default of ArcadeDBError.__init__
NoStatus == 0

NoExc == [kind |-> "none", msg |-> <<>>, names |-> {}, status |-> NoStatus]

\* `raise Kind(f"{prefix}: {str(e)}")`: no status_code is passed
Raise(kind, prefix, names, inner) ==
    [kind |-> kind, msg |-> <<prefix>> \o inner.msg, names |-> names \cup inner.names,
     status |-> NoStatus]

\* `raise Kind(message, status_code=status)`
RaiseStatus(kind, message, status) ==
    [kind |-> kind, msg |-> message, names |-> {}, status |-> status]

Raised(w) == w.exc.kind # "none"

----------------------------------------------------------------------------
(* Commands and responses *)

NoCmd == [verb |-> "none", target |-> Quote(<<>>), rows |-> <<>>, args |-> <<>>]

VersionsType == [name |-> <<"versions">>, quoted |-> FALSE]

NoResp == [status |-> 0, sid |-> NoToken, rows |-> <<>>]

\* the rows of `versions` a request carrying session id tok can see
Visible(versions, tok, classname, bucket) ==
    {i \in DOMAIN versions :
        /\ versions[i].classname = classname
        /\ versions[i].bucket = bucket
        /\ versions[i].tx \in {NoToken, tok}}

MaxOf(S) == CHOOSE m \in S : \A x \in S : x <= m

\* The catalogue of the database: its types and, as <<type, field>> pairs, their
\* properties.  `followed` tells whether the model keeps track of it: where it
\* does not, the server accepts every schema command that reaches it, and a
\* refusal is one of the request failures the environment chooses.
NoCatalogue == [followed |-> FALSE, types |-> {}, props |-> {}]
EmptyCatalogue == [followed |-> TRUE, types |-> {}, props |-> {}]

Range(seq) == {seq[i] : i \in DOMAIN seq}

\* the catalogue after a schema command, and whether the server refuses the
\* command: creating what exists without IF NOT EXISTS, dropping what does
\* not exist without IF EXISTS
Refuses(catalogue, cmd) ==
    /\ catalogue.followed
    /\ CASE cmd.verb = "CREATE_TYPE" ->
              cmd.target.name \in catalogue.types /\ "IF NOT EXISTS" \notin Range(cmd.args)
         [] cmd.verb = "CREATE_PROPERTY" ->
              /\ <<cmd.target.name, cmd.args[1]>> \in catalogue.props
              /\ "IF NOT EXISTS" \notin Range(cmd.args[3])
         [] cmd.verb = "DROP_TYPE" ->
              cmd.target.name \notin catalogue.types /\ "IF EXISTS" \notin Range(cmd.args)
         [] OTHER -> FALSE

Catalogued(catalogue, cmd) ==
    IF ~catalogue.followed \/ Refuses(catalogue, cmd) THEN catalogue
    ELSE CASE cmd.verb = "CREATE_TYPE" ->
                [catalogue EXCEPT !.types = @ \cup {cmd.target.name}]
           [] cmd.verb = "CREATE_PROPERTY" ->
                [catalogue EXCEPT !.props = @ \cup {<<cmd.target.name, cmd.args[1]>>}]
           [] cmd.verb = "DROP_TYPE" ->
                [catalogue EXCEPT !.types = @ \ {cmd.target.name},
                                  !.props = {p \in @ : p[1] # cmd.target.name}]
           [] OTHER -> catalogue

\* The filter of a query is the list of its clauses, each the keyword that
\* introduces it (WHERE / AND), its predicate and the predicate's argument.
Clause(kw, pred, arg) == [kw |-> kw, pred |-> pred, arg |-> arg]

\* the server parses a filter that starts with WHERE and goes on with AND
WellFormed(clauses) ==
    \A i \in DOMAIN clauses : clauses[i].kw = (IF i = 1 THEN "WHERE" ELSE "AND")

\* the record id of `@rid > '<cursor>'`, 0 when the filter has no such clause
CursorOf(clauses) ==
    IF \E i \in DOMAIN clauses : clauses[i].pred = "@rid >"
    THEN DigitValue(clauses[CHOOSE i \in DOMAIN clauses : clauses[i].pred = "@rid >"].arg)
    ELSE 0

\* ORDER BY @rid LIMIT limit over the table rows (record ids 1..table) that
\* the query selects: the first `limit` rows whose record id exceeds the cursor
Page(table, cursor, limit) ==
    [k \in 1..Min(limit, IF table > cursor THEN table - cursor ELSE 0) |-> [rid |-> cursor + k]]

\* What the server does with a request it accepts: the new server state and
\* the response.  POST begin is answered as ArcadeDB answers it ("session"),
\* or, by a server or proxy that does otherwise, with status 204 and no
\* session id header ("no session") or with status 200 ("status 200").  A transaction is opened by POST begin (fresh session id in
\* the arcadedb-session-id response header, status 204) and closed by POST
\* commit / rollback carrying its id; a command carrying the id of an open
\* transaction is part of it and is undone by its rollback.
Serve(w, req) ==
    LET inTx == IF req.token \in w.open THEN req.token ELSE NoToken
        same == [open |-> w.open, versions |-> w.versions, nextTok |-> w.nextTok,
                 catalogue |-> w.catalogue,
                 resp |-> [NoResp EXCEPT !.status = 200]]
    IN CASE req.kind = "begin" /\ w.env.begin = "no session" ->
              [same EXCEPT !.resp.status = 204]
         [] req.kind = "begin" ->
              [same EXCEPT !.open = @ \cup {w.nextTok}, !.nextTok = @ + 1,
                           !.resp = [status |-> IF w.env.begin = "status 200" THEN 200 ELSE 204,
                                     sid |-> w.nextTok, rows |-> <<>>]]
         [] req.kind = "commit" ->
              [same EXCEPT !.open = @ \ {req.token},
                           !.versions = [i \in DOMAIN @ |->
                               IF @[i].tx = inTx THEN [@[i] EXCEPT !.tx = NoToken] ELSE @[i]]]
         [] req.kind = "rollback" ->
              [same EXCEPT !.open = @ \ {req.token},
                           !.versions = SelectSeq(@, LAMBDA e : e.tx = NoToken \/ e.tx # inTx)]
         [] req.kind = "command" /\ req.cmd.verb = "INSERT_VERSION" ->
              [same EXCEPT !.versions = Append(@,
                    [classname |-> req.cmd.args[1], version |-> DigitValue(req.cmd.args[2]),
                     bucket |-> req.cmd.args[3], tx |-> inTx])]
         [] req.kind = "command" /\ req.cmd.verb = "MAX_VERSION" ->
              LET vis == Visible(w.versions, req.token, req.cmd.args[1], req.cmd.args[2])
              IN [same EXCEPT !.resp.rows =
                    IF vis # {}
                    THEN <<[has |-> TRUE, null |-> FALSE,
                            value |-> MaxOf({w.versions[i].version : i \in vis})]>>
                    ELSE CASE w.env.emptyShape = "empty"  -> <<>>
                           [] w.env.emptyShape = "absent" -> <<[has |-> FALSE, null |-> FALSE, value |-> 0]>>
                           [] OTHER                       -> <<[has |-> TRUE, null |-> TRUE, value |-> 0]>>]
         [] req.kind = "command" /\ req.cmd.verb = "LATEST_VERSION" ->
              \* select `bucket` as b, classname, max(`version`) as version ... where
              \* classname = args[1] (the '#'-joined parts) and `bucket` = args[2]
              LET vis == {i \in DOMAIN w.versions :
                             /\ <<w.versions[i].classname>> = req.cmd.args[1]
                             /\ w.versions[i].bucket = req.cmd.args[2]
                             /\ w.versions[i].tx \in {NoToken, req.token}}
              IN [same EXCEPT !.resp.rows =
                    IF vis # {}
                    THEN <<[has |-> TRUE, null |-> FALSE, b |-> req.cmd.args[2],
                            classname |-> req.cmd.args[1][1],
                            value |-> MaxOf({w.versions[i].version : i \in vis})]>>
                    ELSE CASE w.env.emptyShape = "empty"  -> <<>>
                           [] w.env.emptyShape = "absent" ->
                                <<[has |-> FALSE, null |-> FALSE, b |-> "", classname |-> "", value |-> 0]>>
                           [] OTHER ->
                                <<[has |-> TRUE, null |-> TRUE, b |-> "", classname |-> "", value |-> 0]>>]
         [] req.kind = "command" /\ req.cmd.verb = "COUNT" ->
              IF ~WellFormed(req.cmd.args) THEN [same EXCEPT !.resp.status = 500]
              ELSE [same EXCEPT !.resp.rows = <<[counting |-> w.env.count]>>]
         [] req.kind = "command" /\ req.cmd.verb = "SELECT" ->
              IF ~WellFormed(req.cmd.args[1]) THEN [same EXCEPT !.resp.status = 500]
              ELSE [same EXCEPT !.resp.rows =
                        Page(w.env.table, CursorOf(req.cmd.args[1]), req.cmd.args[2][1])]
         [] req.kind = "command" /\ req.cmd.verb \in {"CREATE_TYPE", "CREATE_PROPERTY", "DROP_TYPE"} ->
              IF Refuses(w.catalogue, req.cmd) THEN [same EXCEPT !.resp.status = 500]
              ELSE [same EXCEPT !.catalogue = Catalogued(w.catalogue, req.cmd)]
         [] OTHER -> same

----------------------------------------------------------------------------
(* Control flow of a method body.  w is the world a statement leaves:      *)
(* Bind runs the rest of the body K unless the statement raised; Catch     *)
(* runs the `except` handler H when the guarded statements raised.         *)

Bind(w, K(_)) == IF Raised(w) THEN w ELSE K(w)

Catch(w, H(_)) == IF Raised(w) THEN H(w) ELSE w

\* `raise Kind(f"{prefix}: {str(e)}")` inside `except Exception as e`
Reraise(w, kind, prefix, names) == [w EXCEPT !.exc = Raise(kind, prefix, names, w.exc)]

----------------------------------------------------------------------------
(* Transport *)

\* the request went through: the server's new state and its response
Accepted(w, req, srv) ==
    [w EXCEPT !.nreq = @ + 1, !.log = Append(@, [req EXCEPT !.resp = srv.resp]),
              !.resp = srv.resp,
              !.open = srv.open, !.versions = srv.versions, !.nextTok = srv.nextTok,
              !.catalogue = srv.catalogue,
              !.txOpen = CASE req.kind = "begin" -> TRUE
                           [] req.kind \in {"commit", "rollback"} -> FALSE
                           [] OTHER -> @]

\* An outcome of session.request other than a response below 400: a response
\* with a status and a body that has an 'error' text ("" when it has none), or
\* an exception of requests.exceptions, given by the classes it is an instance
\* of (a ConnectTimeout is a ConnectionError and a Timeout).
Status(status, error) == [status |-> status, classes |-> {}, error |-> error]
Exception(classes) == [status |-> NoStatus, classes |-> classes, error |-> ""]

\* _make_request with `except ConnectionError` before `except Timeout`
MakeRequestRaisesConnectionFirst(outcome, endpoint) ==
    CASE outcome.classes = {} /\ outcome.status = 401 ->
            RaiseStatus("ArcadeDBAuthenticationError",
                        <<"Authentication failed. Check username and password.">>, 401)
      [] outcome.classes = {} /\ outcome.status = 404 ->
            RaiseStatus("ArcadeDBError", <<"Resource not found", endpoint>>, 404)
      [] outcome.classes = {} /\ outcome.status >= 400 ->
            RaiseStatus("ArcadeDBError",
                        <<IF outcome.error # "" THEN outcome.error ELSE "HTTP status: reason">>,
                        outcome.status)
      [] outcome.classes = {} -> NoExc
      [] "ConnectionError" \in outcome.classes ->
            RaiseStatus("ArcadeDBConnectionError", <<"Failed to connect to ArcadeDB">>, NoStatus)
      [] "Timeout" \in outcome.classes ->
            RaiseStatus("ArcadeDBTimeoutError", <<"Request timed out">>, NoStatus)
      [] OTHER -> RaiseStatus("ArcadeDBError", <<"Request failed">>, NoStatus)
\* the tail of _make_request, from `if response.status_code == 401` on, for an
\* outcome of session.request: its `if` chain and then its `except` clauses in
\* their order; NoExc where it returns the response
MakeRequestRaises(outcome, endpoint) ==
    CASE outcome.classes = {} /\ outcome.status = 401 ->
            RaiseStatus("ArcadeDBAuthenticationError",
                        <<"Authentication failed. Check username and password.">>, 401)
      [] outcome.classes = {} /\ outcome.status = 404 ->
            RaiseStatus("ArcadeDBError", <<"Resource not found", endpoint>>, 404)
      [] outcome.classes = {} /\ outcome.status >= 400 ->
            RaiseStatus("ArcadeDBError",
                        <<IF outcome.error # "" THEN outcome.error ELSE "HTTP status: reason">>,
                        outcome.status)
      [] outcome.classes = {} -> NoExc
      [] "Timeout" \in outcome.classes ->
            RaiseStatus("ArcadeDBTimeoutError", <<"Request timed out">>, NoStatus)
      [] "ConnectionError" \in outcome.classes ->
            RaiseStatus("ArcadeDBConnectionError", <<"Failed to connect to ArcadeDB">>, NoStatus)
      [] OTHER -> RaiseStatus("ArcadeDBError", <<"Request failed">>, NoStatus)

\* the request failed (status >= 400, timeout, connection error): _make_request
\* raises, and the server is as it was
Failed(w, req, outcome) ==
    [w EXCEPT !.nreq = @ + 1, !.log = Append(@, req), !.resp = NoResp,
              !.exc = MakeRequestRaises(outcome, req.kind)]

\* response.status_code >= 400: _make_request raises as well
Answered(w, req, srv) ==
    IF MakeRequestRaises(Status(srv.resp.status, ""), req.kind) # NoExc
    THEN Failed(w, [req EXCEPT !.ok = FALSE, !.resp = srv.resp], Status(srv.resp.status, ""))
    ELSE Accepted(w, req, srv)

Send(w, req) ==
    IF req.ok THEN Answered(w, req, Serve(w, req)) ELSE Failed(w, req, w.env.outcome)

\* _make_request with the credentials attached whatever `authenticate` is
MakeRequestAlwaysAuth(w, kind, cmd, authenticate) ==
    Send(w, [kind |-> kind, cmd |-> cmd, token |-> w.token, cred |-> TRUE,
             ok |-> (w.nreq + 1) \notin w.env.faults, txOpen |-> w.txOpen,
             resp |-> NoResp])
\* _make_request: one session.request call.  The session's headers (the
\* transaction token among them) go with every request; the credentials go
\* with it when `authenticate` is set.
MakeRequest(w, kind, cmd, authenticate) ==
    Send(w, [kind |-> kind, cmd |-> cmd, token |-> w.token, cred |-> authenticate,
             ok |-> (w.nreq + 1) \notin w.env.faults, txOpen |-> w.txOpen,
             resp |-> NoResp])

\* authenticate, with its `except` clauses leaving the flag as it was
AuthenticateKeepsFlag(w0) ==
    Bind(Catch(MakeRequest(w0, "exists", NoCmd, TRUE),
               LAMBDA w1 : IF w1.exc.kind = "ArcadeDBAuthenticationError" THEN w1
                           ELSE Reraise(w1, "ArcadeDBAuthenticationError",
                                        "Authentication failed", {})),
         LAMBDA w1 : [w1 EXCEPT !.auth = TRUE, !.ret = <<TRUE>>])
\* authenticate: `except ArcadeDBAuthenticationError` re-raises the error as
\* it is, `except Exception` wraps it
Authenticate(w0) ==
    Bind(Catch(MakeRequest(w0, "exists", NoCmd, TRUE),
               LAMBDA w1 : IF w1.exc.kind = "ArcadeDBAuthenticationError"
                           THEN [w1 EXCEPT !.auth = FALSE]
                           ELSE [w1 EXCEPT !.auth = FALSE,
                                           !.exc = Raise("ArcadeDBAuthenticationError",
                                                         "Authentication failed", {}, w1.exc)]),
         LAMBDA w1 : [w1 EXCEPT !.auth = TRUE, !.ret = <<TRUE>>])

\* `if not self._authenticated: self.authenticate()` without its condition
EnsureAuthenticatedAlways(w) == Authenticate(w)
\* `if not self._authenticated: self.authenticate()`
EnsureAuthenticated(w) == IF w.auth THEN w ELSE Authenticate(w)

\* connect: the readiness probe goes without credentials; `except Exception`
\* logs and re-raises the error as it is
connect(w0) ==
    Bind(MakeRequest(w0, "ready", NoCmd, FALSE), LAMBDA w1 :
        Bind(Authenticate(w1), LAMBDA w2 : [w2 EXCEPT !.ret = <<TRUE>>]))

\* execute_query
execute_query(w0, query) ==
    Bind(EnsureAuthenticated(w0), LAMBDA w1 :
        Catch(Bind(MakeRequest(w1, "command", query, TRUE),
                   LAMBDA w2 : [w2 EXCEPT !.ret = <<w2.resp.rows>>]),
              LAMBDA w3 : Reraise(w3, "ArcadeDBQueryError", "Query execution failed", {})))

\* list_classes
list_classes(w0) ==
    Bind(EnsureAuthenticated(w0), LAMBDA w1 :
        Catch(Bind(MakeRequest(w1, "command",
                       [verb |-> "SCHEMA_TYPES", target |-> <<>>, rows |-> <<>>, args |-> <<>>],
                       TRUE),
                   LAMBDA w2 : [w2 EXCEPT !.ret = <<w2.resp.rows>>]),
              LAMBDA w3 : Reraise(w3, "ArcadeDBError", "Failed to list classes", {})))

\* get_server_info: no lazy authentication; the credentials go with the
\* request when the client is authenticated
get_server_info(w0) ==
    Catch(Bind(MakeRequest(w0, "server", NoCmd, w0.auth),
               LAMBDA w1 : [w1 EXCEPT !.ret = <<w1.resp.rows>>]),
          LAMBDA w2 : Reraise(w2, "ArcadeDBError", "Failed to get server info", {}))

\* list_databases: no lazy authentication
list_databases(w0) ==
    Catch(Bind(MakeRequest(w0, "databases", NoCmd, TRUE),
               LAMBDA w1 : [w1 EXCEPT !.ret = <<w1.resp.rows>>]),
          LAMBDA w2 : Reraise(w2, "ArcadeDBError", "Failed to list databases", {}))

\* begin_transaction with the session header updated before the answer is
\* looked at (not what the source does)
begin_transaction_keeps_token(w0) ==
    Bind(EnsureAuthenticated(w0), LAMBDA w1 :
        Catch(Bind(MakeRequest(w1, "begin", NoCmd, TRUE), LAMBDA w2 :
                   IF w2.resp.status # 204 \/ w2.resp.sid = NoToken
                   THEN [w2 EXCEPT !.token = w2.resp.sid,
                                   !.exc = Raise("ArcadeDBError",
                            "Failed to begin transaction: No session ID returned", {}, NoExc)]
                   ELSE [w2 EXCEPT !.token = w2.resp.sid]),
              LAMBDA w3 : Reraise(w3, "ArcadeDBError", "Failed to begin transaction", {})))

\* begin_transaction
begin_transaction(w0) ==
    Bind(EnsureAuthenticated(w0), LAMBDA w1 :
        Catch(Bind(MakeRequest(w1, "begin", NoCmd, TRUE), LAMBDA w2 :
                   IF w2.resp.status # 204 \/ w2.resp.sid = NoToken
                   THEN [w2 EXCEPT !.exc = Raise("ArcadeDBError",
                            "Failed to begin transaction: No session ID returned", {}, NoExc)]
                   ELSE [w2 EXCEPT !.token = w2.resp.sid]),
              LAMBDA w3 : Reraise(w3, "ArcadeDBError", "Failed to begin transaction", {})))

\* commit_transaction
commit_transaction(w0) ==
    Bind(EnsureAuthenticated(w0), LAMBDA w1 :
        Catch(MakeRequest(w1, "commit", NoCmd, TRUE),
              LAMBDA w2 : Reraise(w2, "ArcadeDBError", "Failed to commit transaction", {})))

\* rollback_transaction
rollback_transaction(w0) ==
    Bind(EnsureAuthenticated(w0), LAMBDA w1 :
        Catch(MakeRequest(w1, "rollback", NoCmd, TRUE),
              LAMBDA w2 : Reraise(w2, "ArcadeDBError", "Failed to rollback transaction", {})))

----------------------------------------------------------------------------
(* Version resolver *)

\* str.split("#") of a string given character by character: the list of the
\* pieces between the separators
RECURSIVE split(_)
split(str) ==
    IF \A i \in DOMAIN str : str[i] # "#" THEN <<str>>
    ELSE <<SubSeq(str, 1, (CHOOSE k \in DOMAIN str :
                              str[k] = "#" /\ \A j \in 1..(k - 1) : str[j] # "#") - 1)>>
         \o split(SubSeq(str, (CHOOSE k \in DOMAIN str :
                                 str[k] = "#" /\ \A j \in 1..(k - 1) : str[j] # "#") + 1, Len(str)))

\* str(n) of an integer n >= 0: its decimal numeral
RECURSIVE Numeral(_)
Numeral(n) ==
    IF n < 10 THEN <<Digits[n + 1]>> ELSE Numeral(n \div 10) \o <<Digits[(n % 10) + 1]>>

\* f"{bucket}#{name}#{lastVersion}" (get_latest_schema_name), character by character
Encode(bucket, name, lastVersion) ==
    bucket \o <<"#">> \o name \o <<"#">> \o Numeral(lastVersion)

\* _parse_table_name with its first two parts exchanged (not what the source does)
_parse_table_name_swapped(table_name) ==
    IF Len(table_name) # 3
    THEN [some |-> FALSE, classname |-> "", version |-> "", bucket |-> ""]
    ELSE [some |-> TRUE, classname |-> table_name[1], version |-> table_name[3],
          bucket |-> table_name[2]]

\* _parse_table_name: None unless the name has exactly 3 parts; otherwise
\* (parts[1], timestamp, parts[2], parts[0]).  The timestamp is the wall
\* clock at the call; nothing in the client reads it back, and it is left
\* out of the tuple.
_parse_table_name(table_name) ==
    IF Len(table_name) # 3
    THEN [some |-> FALSE, classname |-> "", version |-> "", bucket |-> ""]
    ELSE [some |-> TRUE, classname |-> table_name[2], version |-> table_name[3],
          bucket |-> table_name[1]]

\* the INSERT INTO versions command of save_version
VersionCmd(parsed) ==
    [verb |-> "INSERT_VERSION", target |-> VersionsType, rows |-> <<>>,
     args |-> <<parsed.classname, parsed.version, parsed.bucket>>]

\* save_version
save_version(w0, table_name) ==
    Bind(EnsureAuthenticated(w0), LAMBDA w1 :
        IF ~_parse_table_name(table_name).some THEN w1
        ELSE Catch(MakeRequest(w1, "command", VersionCmd(_parse_table_name(table_name)), TRUE),
                   LAMBDA w2 : Reraise(w2, "ArcadeDBError", "Failed to update counter", {})))

\* the tail of get_next_version, from `if 'result' not in result ...` on
NextVersionOf(w, rows) ==
    IF rows = <<>> THEN [w EXCEPT !.ret = <<1, TRUE>>]
    \* lastVersion = None; None + 1 raises TypeError
    ELSE IF rows[1].has /\ rows[1].null
    THEN [w EXCEPT !.exc = Raise("TypeError", "unsupported operand", {}, NoExc)]
    \* lastVersion = result['result'][0].get('lastversion', 0)
    ELSE IF rows[1].has
    THEN [w EXCEPT !.ret = <<rows[1].value + 1, rows[1].value > 0>>]
    ELSE [w EXCEPT !.ret = <<0 + 1, 0 > 0>>]

\* get_next_version
get_next_version(w0, classname, bucket) ==
    Bind(EnsureAuthenticated(w0), LAMBDA w1 :
        Catch(Bind(MakeRequest(w1, "command",
                       [verb |-> "MAX_VERSION", target |-> VersionsType, rows |-> <<>>,
                        args |-> <<classname, bucket>>], TRUE),
                   LAMBDA w2 : NextVersionOf(w2, w2.resp.rows)),
              LAMBDA w3 : Reraise(w3, "ArcadeDBError", "Failed to update counter", {})))

\* bucket=None, the default of get_latest_table_name
NoBucket == ""

\* str(x) inside an f-string / str.format: "None" for None, the decimal
\* numeral for a version number
FormatBucket(bucket) == IF bucket = NoBucket THEN "None" ELSE bucket
FormatVersion(version) == Digits[version + 1]

\* the row of the answer as get_latest_table_name formats it:
\* f"{latest['b']}#{latest['classname']}#{latest['version']}"
LatestOf(w, latest) ==
    IF ~latest.has THEN [w EXCEPT !.exc = Raise("KeyError", "b", {}, NoExc)]
    ELSE IF latest.null THEN [w EXCEPT !.ret = << <<"None", "None", "None">> >>]
    ELSE [w EXCEPT !.ret = << <<latest.b, latest.classname, FormatVersion(latest.value)>> >>]

\* get_latest_table_name from `sql = ...` on, with name and bucket as the
\* first lines of the method left them
LatestQuery(w1, name, bucket) ==
    Catch(Bind(MakeRequest(w1, "command",
                   [verb |-> "LATEST_VERSION", target |-> VersionsType, rows |-> <<>>,
                    args |-> <<name, FormatBucket(bucket)>>], TRUE),
               LAMBDA w2 :
                   IF Len(w2.resp.rows) > 0 THEN LatestOf(w2, w2.resp.rows[1])
                   ELSE [w2 EXCEPT !.ret = << <<FormatBucket(bucket)>> \o name \o <<"0">> >>]),
          LAMBDA w3 : Reraise(w3, "ArcadeDBError", "Failed to get latest table name", {}))

\* get_latest_table_name; name is the list of the '#'-separated parts
get_latest_table_name(w0, name, bucket) ==
    Bind(EnsureAuthenticated(w0), LAMBDA w1 :
        IF Len(name) > 1 /\ bucket = NoBucket
        THEN (IF Len(name) = 3 THEN LatestQuery(w1, <<name[2]>>, name[1])
              ELSE LatestQuery(w1, name, bucket))
        ELSE IF bucket = NoBucket THEN [w1 EXCEPT !.ret = <<name>>]
        ELSE LatestQuery(w1, name, bucket))

----------------------------------------------------------------------------
(* Cursor paginator *)

\* an argument left at its default None
None == ""

\* the filter of count_values_schema, by the four cases of its if / else
CountFilter(customer_type_id, is_not_null) ==
    IF customer_type_id = None
    THEN (IF is_not_null = None THEN <<>>
          ELSE <<Clause("WHERE", "IS NOT NULL", is_not_null)>>)
    ELSE (IF is_not_null = None
          THEN <<Clause("WHERE", "CustomerTypeId =", customer_type_id)>>
          ELSE <<Clause("WHERE", "CustomerTypeId =", customer_type_id),
                 Clause("AND", "IS NOT NULL", is_not_null)>>)

\* count_values_schema
count_values_schema(w0, schema_name, customer_type_id, is_not_null) ==
    Bind(EnsureAuthenticated(w0), LAMBDA w1 :
        Catch(Bind(MakeRequest(w1, "command",
                       [verb |-> "COUNT", target |-> Quote(schema_name), rows |-> <<>>,
                        args |-> CountFilter(customer_type_id, is_not_null)], TRUE),
                   LAMBDA w2 : [w2 EXCEPT !.ret = <<w2.resp.rows[1].counting>>]),
              LAMBDA w3 : Reraise(w3, "ArcadeDBError", "Failed to list classes", {})))

\* the filter of the query of read_data, as its three `if` build it
SelectFilter(condition, customer_type_id, is_not_null) ==
    (IF condition # None THEN <<Clause("WHERE", "condition", condition)>> ELSE <<>>)
    \o (IF customer_type_id # None
        THEN <<Clause(IF condition = None THEN "WHERE" ELSE "AND",
                      "CustomerTypeId =", customer_type_id)>>
        ELSE <<>>)
    \o (IF is_not_null # None THEN <<Clause("AND", "IS NOT NULL", is_not_null)>> ELSE <<>>)

\* no record id yet: last_rid = None
NoRid == 0

\* paged_query: query, then " WHERE @rid > '{last_rid}'" if last_rid, then
\* " ORDER BY @rid LIMIT {limit}"
PagedQuery(target, query, last_rid, limit) ==
    [verb |-> "SELECT", target |-> target, rows |-> <<>>,
     args |-> <<query \o (IF last_rid # NoRid
                          THEN <<Clause("WHERE", "@rid >", Digits[last_rid + 1])>> ELSE <<>>),
                <<limit>> >>]

\* pd.DataFrame.from_records(results), and the [] of an empty count
DataFrame(results) == [type |-> "DataFrame", rows |-> [i \in DOMAIN results |-> results[i].rid]]
EmptyList == [type |-> "list", rows |-> <<>>]

\* the `while True` loop of read_data with a full page ending it as a short
\* one does (not what the source does)
RECURSIVE ReadPagesUntilFull(_, _, _, _, _, _)
ReadPagesUntilFull(w, target, query, limit, results, last_rid) ==
    Bind(Catch(MakeRequest(w, "command", PagedQuery(target, query, last_rid, limit), TRUE),
               LAMBDA w1 : Reraise(w1, "ArcadeDBError", "Failed to read data from schema",
                                   {target.name})),
         LAMBDA w2 :
             IF w2.resp.rows = <<>> THEN [w2 EXCEPT !.ret = <<DataFrame(results)>>]
             ELSE IF Len(w2.resp.rows) <= limit
             THEN [w2 EXCEPT !.ret = <<DataFrame(results \o w2.resp.rows)>>]
             ELSE ReadPagesUntilFull(w2, target, query, limit, results \o w2.resp.rows,
                                     w2.resp.rows[Len(w2.resp.rows)].rid))

\* the `while True` loop of read_data and the return that follows it
RECURSIVE ReadPages(_, _, _, _, _, _)
ReadPages(w, target, query, limit, results, last_rid) ==
    Bind(Catch(MakeRequest(w, "command", PagedQuery(target, query, last_rid, limit), TRUE),
               LAMBDA w1 : Reraise(w1, "ArcadeDBError", "Failed to read data from schema",
                                   {target.name})),
         LAMBDA w2 :
             IF w2.resp.rows = <<>> THEN [w2 EXCEPT !.ret = <<DataFrame(results)>>]
             ELSE IF Len(w2.resp.rows) < limit
             THEN [w2 EXCEPT !.ret = <<DataFrame(results \o w2.resp.rows)>>]
             ELSE ReadPages(w2, target, query, limit, results \o w2.resp.rows,
                            w2.resp.rows[Len(w2.resp.rows)].rid))

\* what one iteration of the loop leaves: the world, whether the loop goes
\* on, and the results and cursor it goes on (or ends) with
Iteration(w, more, results, last_rid) ==
    [w |-> w, more |-> more, results |-> results, last_rid |-> last_rid]

\* one iteration of the loop with `last_rid = data[-1]["@rid"]` left out (not
\* what the source does)
ReadPageKeepsCursor(w, target, query, limit, results, last_rid) ==
    LET w2 == Catch(MakeRequest(w, "command", PagedQuery(target, query, last_rid, limit), TRUE),
                    LAMBDA w1 : Reraise(w1, "ArcadeDBError", "Failed to read data from schema",
                                        {target.name}))
    IN  IF Raised(w2) THEN Iteration(w2, FALSE, results, last_rid)
        ELSE IF w2.resp.rows = <<>>
        THEN Iteration([w2 EXCEPT !.ret = <<DataFrame(results)>>], FALSE, results, last_rid)
        ELSE IF Len(w2.resp.rows) < limit
        THEN Iteration([w2 EXCEPT !.ret = <<DataFrame(results \o w2.resp.rows)>>], FALSE,
                       results \o w2.resp.rows, last_rid)
        ELSE Iteration([w2 EXCEPT !.ret = <<>>], TRUE, results \o w2.resp.rows, last_rid)

\* one iteration of the `while True` loop of read_data: the page request,
\* then the raise, the break (and the return after the loop) or the next
\* cursor
ReadPage(w, target, query, limit, results, last_rid) ==
    LET w2 == Catch(MakeRequest(w, "command", PagedQuery(target, query, last_rid, limit), TRUE),
                    LAMBDA w1 : Reraise(w1, "ArcadeDBError", "Failed to read data from schema",
                                        {target.name}))
    IN  IF Raised(w2) THEN Iteration(w2, FALSE, results, last_rid)
        ELSE IF w2.resp.rows = <<>>
        THEN Iteration([w2 EXCEPT !.ret = <<DataFrame(results)>>], FALSE, results, last_rid)
        ELSE IF Len(w2.resp.rows) < limit
        THEN Iteration([w2 EXCEPT !.ret = <<DataFrame(results \o w2.resp.rows)>>], FALSE,
                       results \o w2.resp.rows, w2.resp.rows[Len(w2.resp.rows)].rid)
        ELSE Iteration([w2 EXCEPT !.ret = <<>>], TRUE, results \o w2.resp.rows,
                       w2.resp.rows[Len(w2.resp.rows)].rid)

\* limit = NEW_PAGE_SIZE if NEW_PAGE_SIZE > 0 else numRows
LimitFor(numRows) == IF NEW_PAGE_SIZE > 0 THEN NEW_PAGE_SIZE ELSE numRows

\* read_data from the count on, without the return on a count of 0 (not what
\* the source does)
ReadCountedAnyway(w1, schema_name, customer_type_id, is_not_null, condition) ==
    Bind(count_values_schema(w1, schema_name, customer_type_id, is_not_null), LAMBDA w2 :
        ReadPages(w2, Quote(schema_name),
                  SelectFilter(condition, customer_type_id, is_not_null),
                  LimitFor(w2.ret[1]), <<>>, NoRid))

\* read_data from `numRows = self.count_values_schema(...)` on
ReadCounted(w1, schema_name, customer_type_id, is_not_null, condition) ==
    Bind(count_values_schema(w1, schema_name, customer_type_id, is_not_null), LAMBDA w2 :
        IF w2.ret[1] = 0 THEN [w2 EXCEPT !.ret = <<EmptyList>>]
        ELSE ReadPages(w2, Quote(schema_name),
                       SelectFilter(condition, customer_type_id, is_not_null),
                       LimitFor(w2.ret[1]), <<>>, NoRid))

\* read_data (fields=None)
read_data(w0, schema_name, customer_type_id, is_not_null, versioning, condition) ==
    Bind(EnsureAuthenticated(w0), LAMBDA w1 :
        IF versioning
        THEN Bind(get_latest_table_name(w1, schema_name, NoBucket), LAMBDA w2 :
                 ReadCounted(w2, w2.ret[1], customer_type_id, is_not_null, condition))
        ELSE ReadCounted(w1, schema_name, customer_type_id, is_not_null, condition))

\* read_incremental_data from `numRows = self.count_values_schema(schema_name)` on
ReadIncrement(w1, schema_name, last_rid) ==
    Bind(count_values_schema(w1, schema_name, None, None), LAMBDA w2 :
        IF w2.ret[1] = 0 THEN [w2 EXCEPT !.ret = <<EmptyList>>]
        ELSE Catch(Bind(MakeRequest(w2, "command",
                            PagedQuery(Quote(schema_name), <<>>, last_rid, LimitFor(w2.ret[1])),
                            TRUE),
                        LAMBDA w3 :
                            IF w3.resp.rows = <<>>
                            THEN [w3 EXCEPT !.ret = <<DataFrame(<<>>), last_rid>>]
                            ELSE [w3 EXCEPT !.ret = <<DataFrame(w3.resp.rows),
                                                      w3.resp.rows[Len(w3.resp.rows)].rid>>]),
                   LAMBDA w4 : Reraise(w4, "ArcadeDBError", "Failed to read data from schema",
                                       {schema_name})))

\* read_incremental_data
read_incremental_data(w0, schema_name, last_rid, versioning) ==
    Bind(EnsureAuthenticated(w0), LAMBDA w1 :
        IF versioning
        THEN Bind(get_latest_table_name(w1, schema_name, NoBucket), LAMBDA w2 :
                 ReadIncrement(w2, w2.ret[1], last_rid))
        ELSE ReadIncrement(w1, schema_name, last_rid))

----------------------------------------------------------------------------
(* Schema manager *)

\* create_schema
create_schema(w0, schema_name) ==
    Bind(EnsureAuthenticated(w0), LAMBDA w1 :
        Catch(Bind(MakeRequest(w1, "command",
                       [verb |-> "CREATE_TYPE", target |-> Quote(schema_name), rows |-> <<>>,
                        args |-> <<"IF NOT EXISTS">>], TRUE),
                   LAMBDA w2 : [w2 EXCEPT !.ret = <<w2.resp.status>>]),
              LAMBDA w3 : Reraise(w3, "ArcadeDBError", "Failed to create schema",
                                  {schema_name})))

\* drop_schema
drop_schema(w0, schema_name) ==
    Bind(EnsureAuthenticated(w0), LAMBDA w1 :
        Catch(Bind(MakeRequest(w1, "command",
                       [verb |-> "DROP_TYPE", target |-> Quote(schema_name), rows |-> <<>>,
                        args |-> <<"IF EXISTS", "UNSAFE">>], TRUE),
                   LAMBDA w2 : [w2 EXCEPT !.ret = <<w2.resp.status>>]),
              LAMBDA w3 : Reraise(w3, "ArcadeDBError", "Failed to drop schema",
                                  {schema_name})))

\* str.upper() on the type keywords the callers pass
Upper(field_type) ==
    CASE field_type = "string" -> "STRING"
      [] field_type = "integer" -> "INTEGER"
      [] OTHER -> field_type

\* create_property
create_property(w0, schema_name, field_name, field_type) ==
    Bind(EnsureAuthenticated(w0), LAMBDA w1 :
        Catch(MakeRequest(w1, "command",
                  [verb |-> "CREATE_PROPERTY", target |-> Quote(schema_name), rows |-> <<>>,
                   args |-> <<field_name, <<Upper(field_type)>>, <<>> >>], TRUE),
              LAMBDA w2 : Reraise(w2, "ArcadeDBError", "Failed to create property",
                                  {schema_name})))

----------------------------------------------------------------------------
(* Batch writer *)

\* a column descriptor with all three keys
Descriptor(name, type) == [keys |-> {"name", "type", "index"}, name |-> name, type |-> type]

\* utils.get_column_names_from_df: [] for an empty frame, else one descriptor
\* per column of the frame (type: the upper-cased dtype of the column)
get_column_names_from_df(df) ==
    IF df.rows = <<>> \/ df.cols = <<>> THEN <<>>
    ELSE [i \in DOMAIN df.cols |-> Descriptor(df.cols[i], "OBJECT")]

\* utils.format_columns: the sanitized names; ValueError when a descriptor
\* has no 'name' (format_columns_raises)
format_columns_raises(columns) == \E i \in DOMAIN columns : "name" \notin columns[i].keys

format_columns(columns) ==
    [i \in DOMAIN columns |-> sanitize_identifier(columns[i].name)]

\* val = row[col] raises KeyError for a label the frame does not have
MissingLabel(data, batch, formatted_columns) ==
    batch # <<>> /\ \E k \in DOMAIN formatted_columns :
                        \A j \in DOMAIN data.cols : data.cols[j] # formatted_columns[k]

\* the `except` clause of the batch request: roll back, then raise the
\* insertion error; an exception out of rollback_transaction takes its place
InsertFailed(w, target) ==
    Bind(rollback_transaction([w EXCEPT !.exc = NoExc]), LAMBDA w2 :
        [w2 EXCEPT !.exc = Raise("ArcadeDBError", "Failed to insert records into schema",
                                 {target.name}, w.exc)])

\* one INSERT command for the rows of a batch
SendBatch(w, target, batch, formatted_columns) ==
    Catch(MakeRequest(w, "command",
              [verb |-> "INSERT", target |-> target, rows |-> batch,
               args |-> formatted_columns], TRUE),
          LAMBDA w1 : InsertFailed(w1, target))

\* the loop `for i in range(0, total_records, batch_size)` of insert_data,
\* from offset i on
RECURSIVE InsertBatches(_, _, _, _, _, _, _)
InsertBatches(w, target, data, formatted_columns, i, total_records, batch_size) ==
    IF i >= total_records THEN w
    ELSE IF MissingLabel(data, Slice(data.rows, i, i + batch_size), formatted_columns)
    THEN [w EXCEPT !.exc = Raise("KeyError", "KeyError", {}, NoExc)]
    ELSE Bind(SendBatch(w, target, Slice(data.rows, i, i + batch_size), formatted_columns),
              LAMBDA w1 : InsertBatches(w1, target, data, formatted_columns, i + batch_size,
                                        total_records, batch_size))

\* batch_size = BATCH_SIZE; if len(columns_arr) < 10: batch_size = 1000
BatchSizeFor(data) ==
    IF Len(data.cols) < ColumnThreshold THEN NarrowBatchSize ELSE BATCH_SIZE

\* data = data.iloc[1:]
DropFirst(data) == [data EXCEPT !.rows = Tail(@)]

\* insert_data with a commit request once the last batch is sent (not what
\* the source does)
insert_data_commits(w0, schema_name, data, columns) ==
    Bind(EnsureAuthenticated(w0), LAMBDA w1 :
        IF data.rows = <<>> \/ data.cols = <<>> THEN w1
        ELSE Bind(begin_transaction(w1), LAMBDA w2 :
            IF format_columns_raises(columns)
            THEN [w2 EXCEPT !.exc = Raise("ValueError",
                                "Column definition must contain 'name' key", {}, NoExc)]
            ELSE Bind(InsertBatches(w2, Quote(schema_name), DropFirst(data),
                                    format_columns(columns), 0, Len(data.rows),
                                    BatchSizeFor(data)),
                      LAMBDA w3 : commit_transaction(w3))))

\* insert_data without the return on an empty frame (not what the source does)
insert_data_of_empty(w0, schema_name, data, columns) ==
    Bind(EnsureAuthenticated(w0), LAMBDA w1 :
        Bind(begin_transaction(w1), LAMBDA w2 :
            IF format_columns_raises(columns)
            THEN [w2 EXCEPT !.exc = Raise("ValueError",
                                "Column definition must contain 'name' key", {}, NoExc)]
            ELSE InsertBatches(w2, Quote(schema_name), DropFirst(data),
                               format_columns(columns), 0, Len(data.rows),
                               BatchSizeFor(data))))

\* insert_data
insert_data(w0, schema_name, data, columns) ==
    Bind(EnsureAuthenticated(w0), LAMBDA w1 :
        IF data.rows = <<>> \/ data.cols = <<>> THEN w1
        ELSE Bind(begin_transaction(w1), LAMBDA w2 :
            IF format_columns_raises(columns)
            THEN [w2 EXCEPT !.exc = Raise("ValueError",
                                "Column definition must contain 'name' key", {}, NoExc)]
            ELSE InsertBatches(w2, Quote(schema_name), DropFirst(data),
                               format_columns(columns), 0, Len(data.rows),
                               BatchSizeFor(data))))

\* the loop `for column in columns: self.create_property(...)` of
\* insert_dataframe, from descriptor k on
RECURSIVE CreateProperties(_, _, _, _)
CreateProperties(w, schema_name, columns, k) ==
    IF k > Len(columns) THEN w
    ELSE Bind(create_property(w, schema_name,
                  IF "name" \in columns[k].keys THEN columns[k].name ELSE <<"N", "a", "m", "e">>,
                  IF "type" \in columns[k].keys THEN columns[k].type ELSE "STRING"),
              LAMBDA w1 : CreateProperties(w1, schema_name, columns, k + 1))

\* insert_dataframe, once `columns` is settled
InsertFrame(w1, schema_name, data, columns) ==
    IF columns = <<>>
    THEN [w1 EXCEPT !.exc = Raise("IndexError", "list index out of range", {}, NoExc)]
    ELSE IF ~({"name", "type", "index"} \subseteq columns[1].keys)
    THEN [w1 EXCEPT !.exc = Raise("ArcadeDBError", "Invalid columns format", {}, NoExc)]
    ELSE Bind(CreateProperties(w1, schema_name, columns, 1), LAMBDA w2 :
        IF data.rows = <<>> \/ data.cols = <<>> THEN w2
        ELSE Bind(save_version(w2, schema_name), LAMBDA w3 :
             Bind(insert_data(w3, schema_name, data, columns), LAMBDA w4 :
                 [w4 EXCEPT !.ret = <<schema_name>>])))

\* insert_dataframe
insert_dataframe(w0, schema_name, data, columns0) ==
    Bind(EnsureAuthenticated(w0), LAMBDA w1 :
        InsertFrame(w1, schema_name, data,
                    IF columns0 = <<>> THEN get_column_names_from_df(data) ELSE columns0))

----------------------------------------------------------------------------
(* Python values and literals.  A value is given by its class and, by     *)
(* class, a truth value, a number, whether it is NaN, its characters or   *)
(* its items; a text is the sequence of its characters.                    *)

Value(type, b, n, nan, s, items) ==
    [type |-> type, b |-> b, n |-> n, nan |-> nan, s |-> s, items |-> items]
PyNone == Value("NoneType", FALSE, 0, FALSE, <<>>, <<>>)
PyBool(b) == Value("bool", b, 0, FALSE, <<>>, <<>>)
PyInt(n) == Value("int", FALSE, n, FALSE, <<>>, <<>>)
\* the float n.0, and float('nan')
PyFloat(n) == Value("float", FALSE, n, FALSE, <<>>, <<>>)
PyNaN == Value("float", FALSE, 0, TRUE, <<>>, <<>>)
PyStr(s) == Value("str", FALSE, 0, FALSE, s, <<>>)
PyList(items) == Value("list", FALSE, 0, FALSE, <<>>, items)

\* isinstance(val, classes): bool is a subclass of int
IsInstance(val, classes) ==
    val.type \in classes \/ (val.type = "bool" /\ "int" \in classes)

\* str(val) for the values above, other than a list
Str(val) ==
    CASE val.type = "NoneType" -> <<"N", "o", "n", "e">>
      [] val.type = "bool" -> IF val.b THEN <<"T", "r", "u", "e">>
                              ELSE <<"F", "a", "l", "s", "e">>
      [] val.type = "int" -> Numeral(val.n)
      [] val.type = "float" -> IF val.nan THEN <<"n", "a", "n">>
                               ELSE Numeral(val.n) \o <<".", "0">>
      [] OTHER -> val.s

\* str.replace(old, new) for a one-character old
Replace(str, old, new) ==
    Concat([i \in DOMAIN str |-> IF str[i] = old THEN new ELSE <<str[i]>>])

\* str.lower() of the str() of a bool
Lower(str) == [i \in DOMAIN str |-> CASE str[i] = "T" -> "t" [] str[i] = "F" -> "f"
                                      [] str[i] = "O" -> "o" [] str[i] = "N" -> "n"
                                      [] OTHER -> str[i]]

\* sep.join(strs)
RECURSIVE Join(_, _)
Join(sep, strs) ==
    IF strs = <<>> THEN <<>>
    ELSE IF Len(strs) = 1 THEN strs[1]
    ELSE strs[1] \o sep \o Join(sep, Tail(strs))

\* the literal insert_data appends to row_values for a cell, with the
\* single quotes of a string left as they are
RowValueSingleQuotesKept(val) ==
    IF val.type = "NoneType" \/ (IsInstance(val, {"float"}) /\ val.nan)
    THEN <<"N", "U", "L", "L">>
    ELSE IF IsInstance(val, {"list"})
    THEN <<"[">> \o Join(<<",">>, [i \in DOMAIN val.items |->
                    <<"\"">> \o Replace(Str(val.items[i]), "\"", <<"\\", "\"">>) \o <<"\"">>])
         \o <<"]">>
    ELSE IF IsInstance(val, {"str"})
    THEN <<"'">> \o Replace(val.s, "\"", <<"\"", "\"">>) \o <<"'">>
    ELSE IF IsInstance(val, {"bool"})
    THEN (IF val.b THEN <<"t", "r", "u", "e">> ELSE <<"f", "a", "l", "s", "e">>)
    ELSE Str(val)
\* the literal insert_data appends to row_values for a cell: the chain of
\* `if val is None or ... elif isinstance(val, list) ... else`
RowValue(val) ==
    IF val.type = "NoneType" \/ (IsInstance(val, {"float"}) /\ val.nan)
    THEN <<"N", "U", "L", "L">>
    ELSE IF IsInstance(val, {"list"})
    THEN <<"[">> \o Join(<<",">>, [i \in DOMAIN val.items |->
                    <<"\"">> \o Replace(Str(val.items[i]), "\"", <<"\\", "\"">>) \o <<"\"">>])
         \o <<"]">>
    ELSE IF IsInstance(val, {"str"})
    THEN <<"'">> \o Replace(Replace(val.s, "\"", <<"\"", "\"">>), "'", <<"'", "'">>) \o <<"'">>
    ELSE IF IsInstance(val, {"bool"})
    THEN (IF val.b THEN <<"t", "r", "u", "e">> ELSE <<"f", "a", "l", "s", "e">>)
    ELSE Str(val)

\* the clause build_where_clause appends for a condition: the chain of
\* `if isinstance(value, str) ... elif isinstance(value, (int, float)) ...`
WhereClause(field, value) ==
    IF IsInstance(value, {"str"}) THEN field \o <<" ", "=", " ", "'">> \o value.s \o <<"'">>
    ELSE IF IsInstance(value, {"int", "float"}) THEN field \o <<" ", "=", " ">> \o Str(value)
    ELSE IF IsInstance(value, {"bool"}) THEN field \o <<" ", "=", " ">> \o Lower(Str(value))
    ELSE IF value.type = "NoneType" THEN field \o <<" ", "I", "S", " ", "N", "U", "L", "L">>
    ELSE field \o <<" ", "=", " ", ":">> \o field

\* utils.build_where_clause; conditions are the items of the dict in order
build_where_clause(conditions) ==
    IF conditions = <<>> THEN <<>>
    ELSE <<"W", "H", "E", "R", "E", " ">>
         \o Join(<<" ", "A", "N", "D", " ">>,
                 [i \in DOMAIN conditions |->
                    WhereClause(conditions[i].field, conditions[i].value)])

----------------------------------------------------------------------------
(* Configuration.  The environment maps a variable to its text; a variable *)
(* that is not set has the empty text (`if not value` treats None and ""  *)
(* alike).                                                                 *)

Unset == <<>>

\* the defaults of the fields of ArcadeDBConfig
DefaultHost == <<"l", "o", "c", "a", "l", "h", "o", "s", "t">>
DefaultPort == 2480
DefaultTimeout == 30
DefaultMaxRetries == 3
MaxPort == 65535

\* int(value) of a text of decimal digits; ValueError for any other text
IntRaises(value) == value = <<>> \/ \E i \in DOMAIN value : value[i] \notin DigitChars
RECURSIVE ParseInt(_)
ParseInt(value) ==
    IF value = <<>> THEN 0
    ELSE 10 * ParseInt(SubSeq(value, 1, Len(value) - 1)) + DigitValue(value[Len(value)])

\* the integer an optional variable gives: its default when it is not set
IntOr(value, default) == IF value = Unset THEN default ELSE ParseInt(value)

\* the variables of `required_vars` that are not set, in the order of the dict
MissingVars(environ) ==
    SelectSeq(<<"ARCADEDB_HOST", "ARCADEDB_NAME", "ARCADEDB_USER", "ARCADEDB_PASS">>,
              LAMBDA env_var : environ[env_var] = Unset)

\* the integer variables of `optional_vars` whose text int() rejects, in the
\* order of the dict
InvalidVars(environ) ==
    SelectSeq(<<"ARCADEDB_PORT", "ARCADEDB_TIMEOUT", "ARCADEDB_MAX_RETRIES">>,
              LAMBDA env_var : environ[env_var] # Unset /\ IntRaises(environ[env_var]))

\* config_data after both loops of from_env
ConfigData(environ) ==
    [host |-> environ["ARCADEDB_HOST"],
     port |-> IntOr(environ["ARCADEDB_PORT"], DefaultPort),
     database |-> environ["ARCADEDB_NAME"],
     username |-> environ["ARCADEDB_USER"],
     password |-> environ["ARCADEDB_PASS"],
     use_ssl |-> Lower(environ["ARCADEDB_USE_SSL"])
                    \in {<<"t", "r", "u", "e">>, <<"1">>, <<"y", "e", "s">>, <<"o", "n">>},
     timeout |-> IntOr(environ["ARCADEDB_TIMEOUT"], DefaultTimeout),
     max_retries |-> IntOr(environ["ARCADEDB_MAX_RETRIES"], DefaultMaxRetries)]

\* the constraints of the fields of ArcadeDBConfig (ge, le, min_length, validate_host)
Valid(data) ==
    /\ data.port >= 1 /\ data.port <= MaxPort
    /\ data.timeout >= 1 /\ data.max_retries >= 0
    /\ data.database # <<>> /\ data.username # <<>> /\ data.password # <<>>
    /\ \E i \in DOMAIN data.host : data.host[i] # " "

\* ArcadeDBConfig.from_env: the error raised and the value returned
from_env(environ) ==
    IF MissingVars(environ) # <<>>
    THEN [exc |-> Raise("ArcadeDBConfigurationError", "Missing required environment variables",
                        Range(MissingVars(environ)), NoExc),
          ret |-> <<>>]
    ELSE IF InvalidVars(environ) # <<>>
    THEN [exc |-> Raise("ArcadeDBConfigurationError", "Invalid integer value for",
                        {Head(InvalidVars(environ))}, NoExc),
          ret |-> <<>>]
    ELSE IF ~Valid(ConfigData(environ))
    THEN [exc |-> Raise("ArcadeDBConfigurationError", "Configuration validation failed",
                        {}, NoExc),
          ret |-> <<>>]
    ELSE [exc |-> NoExc, ret |-> <<ConfigData(environ)>>]

\* to_dict without the masking of the password
to_dict_unmasked(config) == config
\* ArcadeDBConfig.to_dict: model_dump() with data["password"] = "***"
to_dict(config) == [config EXCEPT !.password = <<"*", "*", "*">>]

----------------------------------------------------------------------------
(* Inputs *)

\* table names, as the lists of their '#'-separated parts
VersionedNames == {<<"URA", "permits", v>> : v \in {"0", "1", "2"}}
SchemaNames == {<<"URA", "permits", "1">>, <<"permits">>}

\* frames: rows are identified by their position in the input, 1..n
NarrowCols == << <<"a">>, <<"b">> >>
WideCols == [i \in 1..ColumnThreshold |-> <<"c", Digits[i]>>]
Frame(n, cols) == [rows |-> [i \in 1..n |-> i], cols |-> cols]
Frames == {Frame(n, NarrowCols) : n \in {0, 2}} \cup {Frame(n, WideCols) : n \in 0..MaxRows}

\* the answers to POST begin, and the narrow frames: empty, and of two rows
BeginAnswers == {"session", "no session", "status 200"}
NarrowFrames == {Frame(n, NarrowCols) : n \in {0, 2}}

\* frames of two rows whose two column labels are identifiers, or hold a
\* hyphen or a blank, or start with a digit
LabelledFrames ==
    {Frame(2, <<first, second>>) : first \in {<<"a">>, <<"a", "-">>},
                                   second \in {<<"b">>, <<"b", " ">>, <<"1">>}}

\* the column descriptors the caller passes for a frame (<<>>: none given)
GivenColumns(df) == <<Descriptor(df.cols[1], "string"), Descriptor(df.cols[2], "integer")>>
ColumnArgs(df) ==
    {GivenColumns(df)} \cup (IF Len(df.cols) < ColumnThreshold THEN {<<>>} ELSE {})

\* descriptor lists of which one descriptor lacks a key: the first without
\* 'index', the second without 'name'
Lacking(descriptor, key) == [descriptor EXCEPT !.keys = @ \ {key}]
InvalidColumns(df) ==
    {[GivenColumns(df) EXCEPT ![k] = Lacking(@, key)] :
        k \in DOMAIN GivenColumns(df), key \in {"name", "type", "index"}}

\* the requests of a call that fail, by their position in the call: none, one,
\* or one and the request that follows it.  n is the most requests the call
\* issues when none fails (a fault at a later position meets no request); the
\* last r of them are the batch commands, the only requests whose failure is
\* followed by another request of the same call (the rollback).
FaultPlans(n, r) ==
    {{}} \cup {{i} : i \in 1..n} \cup {{i, i + 1} : i \in (n - r + 1)..n}

\* the INSERT INTO versions request of save_version
VersionRequests(name) == IF _parse_table_name(name).some THEN 1 ELSE 0

\* the iterations of range(0, len(df), batch_size)
Batches(df) == (Len(df.rows) + BatchSizeFor(df) - 1) \div BatchSizeFor(df)

EmptyShapes == {"empty", "absent", "null"}

\* the filter arguments of read_data: each given or left at None
Filters == [condition : {None, "c"}, customer_type_id : {None, "7"}, is_not_null : {None, "f"}]
Unfiltered == [condition |-> None, customer_type_id |-> None, is_not_null |-> None]

\* the tables read and the answers to COUNT: the true count, or a stale one
\* (0, or 1); with a filter, the rows the filter selects
Tables(filter) ==
    IF filter = Unfiltered
    THEN UNION {{[table |-> n, count |-> c] : c \in {0, 1, n}} : n \in 0..MaxTableRows}
    ELSE {[table |-> n, count |-> n] : n \in {1, NEW_PAGE_SIZE + 1}}

\* the names read, and whether the latest version is looked up
ReadNames == {[name |-> <<"permits">>, versioning |-> TRUE],
              [name |-> <<"URA", "permits", "1">>, versioning |-> TRUE],
              [name |-> <<"URA", "permits", "1">>, versioning |-> FALSE]}

\* the versions query of get_latest_table_name for a name read
LatestRequests(r) == IF r.versioning /\ Len(r.name) > 1 THEN 1 ELSE 0
ShapesFor(r) == IF LatestRequests(r) = 1 THEN EmptyShapes ELSE {"empty"}

\* the page requests of a scan of a table with the given page size
Pages(table, limit) == (table \div limit) + 1

\* bucket and table names of the identifier codec, character by character
NameChars == {"U", "p", "#"}
Names == UNION {[1..n -> NameChars] : n \in 1..MaxNameLen}

\* names given to get_latest_table_name: 1, 2, 3 and 4 parts
LatestNames == {<<"permits">>, <<"URA", "permits">>, <<"URA", "permits", "1">>,
                <<"URA", "permits", "1", "x">>}

\* the texts of at most n characters drawn from chars
Texts(chars, n) == UNION {[1..k -> chars] : k \in 0..n}

\* cells of a frame: None, NaN, a float, integers, booleans, strings with
\* both kinds of quote, lists of strings, an integer and a boolean
CellChars == {"a", "'", "\""}
Items == {PyStr(<<"a">>), PyStr(<<"\"">>), PyInt(7), PyBool(TRUE)}
Cells ==
    {PyNone, PyNaN, PyFloat(1), PyInt(0), PyInt(12), PyBool(TRUE), PyBool(FALSE)}
    \cup {PyStr(str) : str \in Texts(CellChars, MaxCellLen)}
    \cup {PyList(items) : items \in Texts(Items, MaxItems)}

\* conditions of build_where_clause: the k-th key of the dict is the k-th
\* letter, its value a string, a number, a boolean, None or a list
Fields == <<"n", "a", "s">>
ConditionValues ==
    {PyStr(<<"J">>), PyInt(7), PyFloat(1), PyBool(TRUE), PyBool(FALSE), PyNone, PyList(<<>>)}
Conditions ==
    UNION {{[i \in 1..k |-> [field |-> <<Fields[i]>>, value |-> values[i]]] :
               values \in [1..k -> ConditionValues]} : k \in 0..MaxConditions}

\* identifiers: a letter, a digit, the underscore, a hyphen and a blank
IdentifierChars == {"a", "1", "_", "-", " "}
Identifiers == Texts(IdentifierChars, MaxIdentifierLen)

----------------------------------------------------------------------------
(* The retry strategy of the session (_setup_session) *)

MaxRetries == 2

status_forcelist == {429, 500, 502, 503, 504}
allowed_methods_without_post == {"HEAD", "GET", "PUT", "DELETE", "OPTIONS", "TRACE"}
allowed_methods == {"HEAD", "GET", "PUT", "DELETE", "OPTIONS", "TRACE", "POST"}

\* Retry.is_retry: the answer asks for the request to be sent again
is_retry(method, status) == method \in allowed_methods /\ status \in status_forcelist

\* what the mounted adapter does with an answer to the attempt numbered
\* `attempt` of a request under Retry(total=max_retries): send again while
\* the total is not used up, raise when it is, hand any other answer back
AdapterOutcome(method, status, attempt, max_retries) ==
    IF ~is_retry(method, status) THEN "response"
    ELSE IF attempt <= max_retries THEN "retry"
    ELSE "RetryError"

\* the methods _make_request is called with, and the answers of a server
HttpMethods == {"GET", "POST"}
HttpStatuses == {200, 204, 400, 401, 403, 404, 429, 500, 502, 503, 504}

\* environments: each of the variables from_env reads and each of the
\* variables ARCADEDB_DATABASE, ARCADEDB_USERNAME, ARCADEDB_PASSWORD set or
\* not, two passwords, a port that is valid, out of range or not a number
Passwords == {<<"p">>, <<"q">>}
Environments ==
    [{"ARCADEDB_HOST"} -> {Unset, <<"h">>}]
    \X [{"ARCADEDB_NAME", "ARCADEDB_DATABASE"} -> {Unset, <<"d">>}]
    \X [{"ARCADEDB_USER", "ARCADEDB_USERNAME"} -> {Unset, <<"u">>}]
    \X [{"ARCADEDB_PASS", "ARCADEDB_PASSWORD"} -> {Unset} \cup Passwords]
    \X [{"ARCADEDB_PORT"} -> {Unset, <<"8", "0">>, <<"0">>, <<"x">>}]
    \X [{"ARCADEDB_USE_SSL"} -> {Unset, <<"t", "r", "u", "e">>, <<"O", "N">>, <<"n", "o">>}]
    \X [{"ARCADEDB_TIMEOUT", "ARCADEDB_MAX_RETRIES"} -> {Unset}]

\* the environment made of the parts of one of the tuples above
Environ(parts) ==
    [env_var \in UNION {DOMAIN parts[i] : i \in DOMAIN parts} |->
        parts[CHOOSE i \in DOMAIN parts : env_var \in DOMAIN parts[i]][env_var]]

\* the outcomes of session.request that make _make_request raise: statuses
\* with and without an 'error' text in the body, and the exceptions Timeout,
\* ConnectionError, ConnectTimeout (both) and a RequestException of another class
Outcomes ==
    {Status(401, ""), Status(404, ""), Status(400, "Invalid query syntax"),
     Status(400, ""), Status(500, "Database error"), Status(503, ""),
     Exception({"Timeout", "RequestException"}),
     Exception({"ConnectionError", "RequestException"}),
     Exception({"ConnectionError", "Timeout", "RequestException"}),
     Exception({"RequestException"})}

\* the outcome of the requests of a call none of which fails
Ok == Status(200, "")

\* the outcome a call meets under a fault plan
OutcomeOf(faults, outcome) == IF faults = {} THEN Ok ELSE outcome

\* the query given to execute_query
Query == [verb |-> "QUERY", target |-> <<>>, rows |-> <<>>, args |-> <<>>]

----------------------------------------------------------------------------
(* State machine *)

NoData == Frame(0, <<>>)

Start(faults, emptyShape) ==
    [auth |-> authenticated, token |-> sessionToken, open |-> srvOpen,
     versions |-> srvVersions, nextTok |-> nextTok, catalogue |-> srvCatalogue,
     txOpen |-> clientTxOpen,
     log |-> <<>>, nreq |-> 0, resp |-> NoResp, exc |-> NoExc, ret |-> <<>>,
     env |-> [faults |-> faults, emptyShape |-> emptyShape, outcome |-> Status(500, ""),
              begin |-> "session"]]

\* a call that reads a table: the table holds the rows with record ids
\* 1..table when the call starts, and the server answers COUNT with `count`
\* (the count is not taken in the transaction of the scan and may be stale)
StartRead(faults, emptyShape, table, count) ==
    [Start(faults, emptyShape) EXCEPT
        !.env = [faults |-> faults, emptyShape |-> emptyShape, outcome |-> Status(500, ""),
                 begin |-> "session", table |-> table, count |-> count]]

\* a call during which POST begin is answered in the given way
StartBegin(faults, answer) ==
    [Start(faults, "empty") EXCEPT !.env.begin = answer]

\* a call of which the requests that fail have the given outcome
StartFailing(faults, outcome) ==
    [Start(faults, "empty") EXCEPT !.env.outcome = outcome]

\* the call is over: what it leaves behind; args are the arguments of the call
\* other than the table name and the frame
Done(w, method, schema_name, data, args) ==
    /\ authenticated' = w.auth
    /\ sessionToken' = w.token
    /\ srvOpen' = w.open
    /\ srvVersions' = w.versions
    /\ nextTok' = w.nextTok
    /\ srvCatalogue' = w.catalogue
    /\ clientTxOpen' = w.txOpen
    /\ log' = w.log
    /\ lastOp' = [method |-> method, schema |-> schema_name, nrows |-> Len(data.rows),
                  ncols |-> Len(data.cols), args |-> args, exc |-> w.exc, ret |-> w.ret]

Finish(w, method, schema_name, data) == Done(w, method, schema_name, data, <<>>)

\* the authentication request of a call on an unauthenticated client
LazyAuth == IF authenticated THEN 0 ELSE 1

\* the server still has a session id and a versions row to give
Room == nextTok <= MaxTokens /\ Len(srvVersions) < MaxEntries

\* __init__ has run: connect() answered and authenticate() succeeded (a
\* constructor that raises leaves no client behind)
Init ==
    /\ authenticated = TRUE
    /\ sessionToken = NoToken
    /\ srvOpen = {}
    /\ srvVersions = <<>>
    /\ nextTok = 1
    /\ srvCatalogue = NoCatalogue
    /\ clientTxOpen = FALSE
    /\ log = <<>>
    /\ lastOp = [method |-> "__init__", schema |-> <<>>, nrows |-> 0, ncols |-> 0,
                 args |-> <<>>, exc |-> NoExc, ret |-> <<>>]

CallAuthenticate ==
    \E f \in FaultPlans(1, 0) :
        Finish(Authenticate(Start(f, "empty")), "authenticate", <<>>, NoData)

CallBeginTransaction ==
    /\ Room
    /\ \E f \in FaultPlans(LazyAuth + 1, 0) :
        Finish(begin_transaction(Start(f, "empty")), "begin_transaction", <<>>, NoData)

CallCommitTransaction ==
    \E f \in FaultPlans(LazyAuth + 1, 0) :
        Finish(commit_transaction(Start(f, "empty")), "commit_transaction", <<>>, NoData)

CallRollbackTransaction ==
    \E f \in FaultPlans(LazyAuth + 1, 0) :
        Finish(rollback_transaction(Start(f, "empty")), "rollback_transaction", <<>>, NoData)

CallSaveVersion ==
    /\ Room
    /\ \E name \in VersionedNames \cup SchemaNames, f \in FaultPlans(LazyAuth + 1, 0) :
        Finish(save_version(Start(f, "empty"), name), "save_version", name, NoData)

CallGetNextVersion ==
    \E classname \in {"permits"}, bucket \in {"URA", "KCCA"}, shape \in EmptyShapes,
       f \in FaultPlans(LazyAuth + 1, 0) :
        Finish(get_next_version(Start(f, shape), classname, bucket), "get_next_version",
               <<bucket, classname>>, NoData)

CallGetLatestTableName ==
    \E name \in LatestNames, bucket \in {NoBucket, "URA"}, shape \in EmptyShapes,
       f \in FaultPlans(LazyAuth + 1, 0) :
        Done(get_latest_table_name(Start(f, shape), name, bucket), "get_latest_table_name",
             name, NoData, <<bucket>>)

CallReadData ==
    \E r \in ReadNames, filter \in Filters :
      \E t \in Tables(filter), shape \in ShapesFor(r) :
        \E f \in FaultPlans(LazyAuth + LatestRequests(r) + 1 + Pages(t.table, NEW_PAGE_SIZE), 0) :
          Done(read_data(StartRead(f, shape, t.table, t.count), r.name, filter.customer_type_id,
                         filter.is_not_null, r.versioning, filter.condition),
               "read_data", r.name, Frame(t.table, <<>>),
               [filter |-> filter, versioning |-> r.versioning, count |-> t.count,
                last_rid |-> NoRid])

CallReadIncrementalData ==
    \E r \in ReadNames, t \in Tables(Unfiltered), last_rid \in {NoRid, NEW_PAGE_SIZE} :
      \E shape \in ShapesFor(r), f \in FaultPlans(LazyAuth + LatestRequests(r) + 2, 0) :
          Done(read_incremental_data(StartRead(f, shape, t.table, t.count), r.name, last_rid,
                                     r.versioning),
               "read_incremental_data", r.name, Frame(t.table, <<>>),
               [filter |-> Unfiltered, versioning |-> r.versioning, count |-> t.count,
                last_rid |-> last_rid])

CallInsertData ==
    /\ Room
    /\ \E name \in SchemaNames, df \in Frames :
         \E columns \in {GivenColumns(df)} :
           \E f \in FaultPlans(LazyAuth + 1 + Batches(df), Batches(df)) :
              Done(insert_data(Start(f, "empty"), name, df, columns),
                   "insert_data", name, df, columns)

CallInsertDataframe ==
    /\ Room
    /\ \E name \in SchemaNames, df \in Frames :
         \E columns \in ColumnArgs(df) :
           \E f \in FaultPlans(LazyAuth + Len(GivenColumns(df)) + VersionRequests(name) + 1 + Batches(df),
                              Batches(df)) :
              Done(insert_dataframe(Start(f, "empty"), name, df, columns),
                   "insert_dataframe", name, df, columns)

\* the transaction calls and the writers against a server that answers POST
\* begin in one of the three ways
CallBeginTransactionAnswered ==
    /\ Room
    /\ \E answer \in BeginAnswers, f \in FaultPlans(LazyAuth + 1, 0) :
          Done(begin_transaction(StartBegin(f, answer)), "begin_transaction", <<>>, NoData,
               <<answer>>)

CallInsertDataAnswered ==
    /\ Room
    /\ \E name \in SchemaNames, df \in NarrowFrames, answer \in BeginAnswers :
         \E f \in FaultPlans(LazyAuth + 1 + Batches(df), Batches(df)) :
            Done(insert_data(StartBegin(f, answer), name, df, GivenColumns(df)),
                 "insert_data", name, df, GivenColumns(df))

CallInsertDataframeAnswered ==
    /\ Room
    /\ \E name \in SchemaNames, df \in NarrowFrames, answer \in BeginAnswers :
         \E columns \in ColumnArgs(df) :
           \E f \in FaultPlans(LazyAuth + Len(GivenColumns(df)) + VersionRequests(name) + 1 + Batches(df),
                              Batches(df)) :
              Done(insert_dataframe(StartBegin(f, answer), name, df, columns),
                   "insert_dataframe", name, df, columns)

\* insert_dataframe of a frame whose labels need not be identifiers
CallInsertDataframeLabelled ==
    /\ Room
    /\ \E name \in SchemaNames, df \in LabelledFrames :
         \E columns \in ColumnArgs(df) :
           \E f \in FaultPlans(LazyAuth + Len(GivenColumns(df)) + VersionRequests(name) + 1 + Batches(df),
                              Batches(df)) :
              Done(insert_dataframe(Start(f, "empty"), name, df, columns),
                   "insert_dataframe", name, df, GivenColumns(df))

\* insert_data / insert_dataframe given a descriptor list in which one
\* descriptor lacks a key
CallInsertDataInvalid ==
    /\ Room
    /\ \E name \in SchemaNames, df \in {Frame(BATCH_SIZE, NarrowCols)} :
         \E columns \in InvalidColumns(df) :
           \E f \in FaultPlans(LazyAuth + 1 + Batches(df), Batches(df)) :
              Done(insert_data(Start(f, "empty"), name, df, columns),
                   "insert_data", name, df, columns)

CallInsertDataframeInvalid ==
    /\ Room
    /\ \E name \in SchemaNames, df \in {Frame(BATCH_SIZE, NarrowCols)} :
         \E columns \in InvalidColumns(df) :
           \E f \in FaultPlans(LazyAuth + Len(columns) + VersionRequests(name) + 1 + Batches(df),
                              Batches(df)) :
              Done(insert_dataframe(Start(f, "empty"), name, df, columns),
                   "insert_dataframe", name, df, columns)

CallCreateSchema ==
    \E name \in SchemaNames, f \in FaultPlans(LazyAuth + 1, 0) :
        Finish(create_schema(Start(f, "empty"), name), "create_schema", name, NoData)

CallCreateProperty ==
    \E name \in SchemaNames, field_name \in Range(NarrowCols), field_type \in {"string"},
       f \in FaultPlans(LazyAuth + 1, 0) :
        Done(create_property(Start(f, "empty"), name, field_name, field_type),
             "create_property", name, NoData, <<field_name, field_type>>)

CallDropSchema ==
    \E name \in SchemaNames, f \in FaultPlans(LazyAuth + 1, 0) :
        Finish(drop_schema(Start(f, "empty"), name), "drop_schema", name, NoData)

\* The transport and the operations that issue one command: each call is
\* given the outcome its failing request meets.
CallMakeRequest ==
    \E o \in Outcomes, f \in FaultPlans(1, 0), authenticate \in BOOLEAN :
        Done(Bind(MakeRequest(StartFailing(f, o), "test-endpoint", NoCmd, authenticate),
                  LAMBDA w : [w EXCEPT !.ret = <<w.resp.status>>]),
             "_make_request", <<>>, NoData, <<OutcomeOf(f, o), authenticate>>)

CallConnect ==
    \E o \in Outcomes, f \in FaultPlans(2, 0) :
        Done(connect(StartFailing(f, o)), "connect", <<>>, NoData, <<OutcomeOf(f, o)>>)

CallAuthenticateFailing ==
    \E o \in Outcomes, f \in FaultPlans(1, 0) :
        Done(Authenticate(StartFailing(f, o)), "authenticate", <<>>, NoData,
             <<OutcomeOf(f, o)>>)

CallExecuteQuery ==
    \E o \in Outcomes, f \in FaultPlans(LazyAuth + 1, 0) :
        Done(execute_query(StartFailing(f, o), Query), "execute_query", <<>>, NoData,
             <<OutcomeOf(f, o)>>)

CallListClasses ==
    \E o \in Outcomes, f \in FaultPlans(LazyAuth + 1, 0) :
        Done(list_classes(StartFailing(f, o)), "list_classes", <<>>, NoData,
             <<OutcomeOf(f, o)>>)

CallGetServerInfo ==
    \E o \in Outcomes, f \in FaultPlans(1, 0) :
        Done(get_server_info(StartFailing(f, o)), "get_server_info", <<>>, NoData,
             <<OutcomeOf(f, o)>>)

CallListDatabases ==
    \E o \in Outcomes, f \in FaultPlans(1, 0) :
        Done(list_databases(StartFailing(f, o)), "list_databases", <<>>, NoData,
             <<OutcomeOf(f, o)>>)

\* count_values_schema of a plain and of a versioned name, with each of the
\* four combinations of its filter arguments; the server counts 0 or 3 rows
CallCountValuesSchema ==
    \E name \in {<<"Person">>, <<"URA", "permits", "1">>},
       customer_type_id \in {None, "7"}, is_not_null \in {None, "f"}, count \in {0, 3},
       o \in Outcomes, f \in FaultPlans(LazyAuth + 1, 0) :
        Done(count_values_schema([StartRead(f, "empty", count, count) EXCEPT !.env.outcome = o],
                                 name, customer_type_id, is_not_null),
             "count_values_schema", name, NoData,
             <<OutcomeOf(f, o), customer_type_id, is_not_null, count>>)

\* read_data of a versioned name on a table of one row: the versions query,
\* the COUNT and the page
CallReadDataFailing ==
    \E o \in Outcomes, f \in FaultPlans(LazyAuth + 2 + Pages(1, NEW_PAGE_SIZE), 0) :
        Done(read_data([StartRead(f, "empty", 1, 1) EXCEPT !.env.outcome = o],
                       <<"URA", "permits", "1">>, None, None, TRUE, None),
             "read_data", <<"URA", "permits", "1">>, Frame(1, <<>>), <<OutcomeOf(f, o)>>)

\* the batch writer and the transaction calls
Next ==
    \/ CallAuthenticate
    \/ CallBeginTransaction
    \/ CallCommitTransaction
    \/ CallRollbackTransaction
    \/ CallInsertData
    \/ CallInsertDataframe

Spec == Init /\ [][Next]_vars

\* the version resolver and the transaction calls
NextVersions ==
    \/ CallAuthenticate
    \/ CallBeginTransaction
    \/ CallCommitTransaction
    \/ CallRollbackTransaction
    \/ CallSaveVersion
    \/ CallGetNextVersion
    \/ CallGetLatestTableName

SpecVersions == Init /\ [][NextVersions]_vars

\* the batch writer given malformed column descriptors, and the transaction calls
NextColumns ==
    \/ CallAuthenticate
    \/ CallBeginTransaction
    \/ CallCommitTransaction
    \/ CallRollbackTransaction
    \/ CallInsertDataInvalid
    \/ CallInsertDataframeInvalid

SpecColumns == Init /\ [][NextColumns]_vars

\* transactions and writes, whatever the answer to POST begin
NextBegin ==
    \/ CallAuthenticate
    \/ CallBeginTransactionAnswered
    \/ CallCommitTransaction
    \/ CallRollbackTransaction
    \/ CallInsertDataAnswered
    \/ CallInsertDataframeAnswered

SpecBegin == Init /\ [][NextBegin]_vars

\* the columns of a frame, from the property created to the cell read
NextLabels ==
    \/ CallAuthenticate
    \/ CallBeginTransaction
    \/ CallCommitTransaction
    \/ CallRollbackTransaction
    \/ CallInsertDataframeLabelled

SpecLabels == Init /\ [][NextLabels]_vars

\* the cursor paginator: reading a whole table
NextRead ==
    \/ CallAuthenticate
    \/ CallReadData

SpecRead == Init /\ [][NextRead]_vars

\* the cursor paginator: reading one page
NextIncremental ==
    \/ CallAuthenticate
    \/ CallReadIncrementalData

SpecIncremental == Init /\ [][NextIncremental]_vars

\* the transport: every outcome of a request, met by the calls that issue one
NextTransport ==
    \/ CallMakeRequest
    \/ CallConnect
    \/ CallAuthenticateFailing
    \/ CallExecuteQuery
    \/ CallListClasses
    \/ CallGetServerInfo
    \/ CallListDatabases
    \/ CallCountValuesSchema
    \/ CallReadDataFailing

SpecTransport == Init /\ [][NextTransport]_vars

\* The identifier codec: a (bucket, table, version) is chosen, encoded, and the
\* identifier is decoded by _parse_table_name.
InitCodec ==
    /\ authenticated = TRUE
    /\ sessionToken = NoToken
    /\ srvOpen = {}
    /\ srvVersions = <<>>
    /\ nextTok = 1
    /\ srvCatalogue = NoCatalogue
    /\ clientTxOpen = FALSE
    /\ log = <<>>
    /\ \E bucket \in Names, name \in Names, version \in 0..MaxVersion :
          lastOp = [method |-> "__init__", schema |-> <<>>, nrows |-> 0, ncols |-> 0,
                    args |-> <<bucket, name, version>>, exc |-> NoExc, ret |-> <<>>]

CallEncode ==
    /\ lastOp.method = "__init__"
    /\ lastOp' = [lastOp EXCEPT !.method = "encode",
                                !.schema = Encode(lastOp.args[1], lastOp.args[2], lastOp.args[3])]
    /\ UNCHANGED <<authenticated, sessionToken, srvOpen, srvVersions, nextTok, srvCatalogue,
                   clientTxOpen, log>>

\* the value returned is the tuple of _parse_table_name (without its
\* timestamp), or None; the version in it is a str, a piece of the split
CallParseTableName ==
    /\ lastOp.method = "encode"
    /\ lastOp' = [lastOp EXCEPT !.method = "_parse_table_name",
                                !.ret = <<[_parse_table_name(split(lastOp.schema))
                                             EXCEPT !.version = [type |-> "str", value |-> @]]>>]
    /\ UNCHANGED <<authenticated, sessionToken, srvOpen, srvVersions, nextTok, srvCatalogue,
                   clientTxOpen, log>>

NextCodec ==
    \/ CallEncode
    \/ CallParseTableName

SpecCodec == InitCodec /\ [][NextCodec]_vars

\* The pure functions: an argument is chosen and the function is applied to it.
Idle ==
    /\ authenticated = TRUE
    /\ sessionToken = NoToken
    /\ srvOpen = {}
    /\ srvVersions = <<>>
    /\ nextTok = 1
    /\ srvCatalogue = NoCatalogue
    /\ clientTxOpen = FALSE
    /\ log = <<>>

Given(arg) ==
    lastOp = [method |-> "__init__", schema |-> <<>>, nrows |-> 0, ncols |-> 0,
              args |-> <<arg>>, exc |-> NoExc, ret |-> <<>>]

Apply(function, result) ==
    /\ lastOp.method = "__init__"
    /\ lastOp' = [lastOp EXCEPT !.method = function, !.ret = <<result>>]
    /\ UNCHANGED <<authenticated, sessionToken, srvOpen, srvVersions, nextTok, srvCatalogue,
                   clientTxOpen, log>>

\* the literal encoder of the batch writer
InitCells == Idle /\ \E val \in Cells : Given(val)
CallRowValue == Apply("row_value", RowValue(lastOp.args[1]))
NextCells == CallRowValue
SpecCells == InitCells /\ [][NextCells]_vars

\* build_where_clause
InitWhere == Idle /\ \E conditions \in Conditions : Given(conditions)
CallBuildWhereClause == Apply("build_where_clause", build_where_clause(lastOp.args[1]))
NextWhere == CallBuildWhereClause
SpecWhere == InitWhere /\ [][NextWhere]_vars

\* sanitize_identifier
InitIdentifier == Idle /\ \E identifier \in Identifiers : Given(identifier)
CallSanitizeIdentifier == Apply("sanitize_identifier", sanitize_identifier(lastOp.args[1]))
NextIdentifier == CallSanitizeIdentifier
SpecIdentifier == InitIdentifier /\ [][NextIdentifier]_vars

\* one session.request under the retry strategy: the adapter sends the
\* request, the server answers, and the adapter sends it again or ends
InitRetry ==
    /\ Idle
    /\ \E method \in HttpMethods, max_retries \in 0..MaxRetries :
           lastOp = [method |-> "__init__", schema |-> <<>>, nrows |-> 0, ncols |-> 0,
                     args |-> <<method, max_retries>>, exc |-> NoExc, ret |-> <<>>]

AdapterSend(status) ==
    LET method == lastOp.args[1]
        outcome == AdapterOutcome(method, status, Len(log) + 1, lastOp.args[2])
    IN  /\ log' = Append(log, [method |-> method, status |-> status])
        /\ lastOp' = [lastOp EXCEPT
                         !.method = IF outcome = "retry" THEN "retry" ELSE "request",
                         !.exc = IF outcome = "RetryError"
                                 THEN [NoExc EXCEPT !.kind = "RetryError"] ELSE NoExc,
                         !.ret = IF outcome = "response" THEN <<status>> ELSE <<>>]
        /\ UNCHANGED <<authenticated, sessionToken, srvOpen, srvVersions, nextTok,
                       srvCatalogue, clientTxOpen>>

SessionRequest == lastOp.method = "__init__" /\ \E status \in HttpStatuses : AdapterSend(status)
Resend == lastOp.method = "retry" /\ \E status \in HttpStatuses : AdapterSend(status)

NextRetry ==
    \/ SessionRequest
    \/ Resend

\* the adapter's loop runs in the calling thread: a request it has decided to
\* send again is sent again
SpecRetry == InitRetry /\ [][NextRetry]_vars /\ WF_vars(Resend)

\* the scan of read_data, one iteration of its loop at a time: the table has
\* been counted (numRows > 0) and the first page has not been asked for.
\* lastOp.args is what the last iteration left (Iteration), lastOp.filter
\* the filter arguments of the call.
InitScan ==
    /\ Idle
    /\ \E table \in 0..MaxTableRows, filter \in Filters :
           lastOp = [method |-> "read_data", schema |-> <<"permits">>, nrows |-> table,
                     ncols |-> 0, filter |-> filter,
                     args |-> Iteration(StartRead({}, "empty", table, table), TRUE, <<>>, NoRid)]

\* one iteration: the loop goes on while lastOp.args.more
ScanPage ==
    /\ lastOp.args.more
    /\ \E f \in FaultPlans(1, 0) :
          lastOp' = [lastOp EXCEPT !.args =
                        ReadPage([StartRead(f, "empty", lastOp.nrows, lastOp.nrows)
                                     EXCEPT !.log = log],
                                 Quote(lastOp.schema),
                                 SelectFilter(lastOp.filter.condition,
                                              lastOp.filter.customer_type_id,
                                              lastOp.filter.is_not_null),
                                 LimitFor(lastOp.nrows), lastOp.args.results,
                                 lastOp.args.last_rid)]
    /\ authenticated' = lastOp'.args.w.auth
    /\ sessionToken' = lastOp'.args.w.token
    /\ srvOpen' = lastOp'.args.w.open
    /\ srvVersions' = lastOp'.args.w.versions
    /\ nextTok' = lastOp'.args.w.nextTok
    /\ srvCatalogue' = lastOp'.args.w.catalogue
    /\ clientTxOpen' = lastOp'.args.w.txOpen
    /\ log' = lastOp'.args.w.log

NextScan == ScanPage

\* the loop runs in the calling thread: while it has not ended, its next
\* iteration is taken
SpecScan == InitScan /\ [][NextScan]_vars /\ WF_vars(ScanPage)

\* Two clients of one server, each constructed by its own __init__: in this
\* specification authenticated, sessionToken and clientTxOpen hold one value
\* per client, and an operation of a client is one step.
Clients == {1, 2}

InitClients ==
    /\ authenticated = [c \in Clients |-> TRUE]
    /\ sessionToken = [c \in Clients |-> NoToken]
    /\ clientTxOpen = [c \in Clients |-> FALSE]
    /\ srvOpen = {}
    /\ srvVersions = <<>>
    /\ nextTok = 1
    /\ srvCatalogue = NoCatalogue
    /\ log = <<>>
    /\ lastOp = [method |-> "__init__", schema |-> <<>>, nrows |-> 0, ncols |-> 0,
                 args |-> [client |-> 0, obtained |-> [c \in Clients |-> {}]],
                 exc |-> NoExc, ret |-> <<>>]

\* the state a call of client c starts in: its own session and flag
ClientStart(c, faults) ==
    [Start(faults, "empty") EXCEPT !.auth = authenticated[c], !.token = sessionToken[c],
                                   !.txOpen = clientTxOpen[c]]

\* the session ids the begin requests of a call were answered with
Obtained(requests) ==
    {requests[i].resp.sid : i \in {j \in DOMAIN requests :
                                       requests[j].kind = "begin" /\ requests[j].ok}}

\* the end of a call with one session object shared by the instances, as a
\* class attribute would be (not what the source does)
ClientDoneSharedSession(c, w, method) ==
    /\ authenticated' = [authenticated EXCEPT ![c] = w.auth]
    /\ sessionToken' = [d \in Clients |-> w.token]
    /\ clientTxOpen' = [clientTxOpen EXCEPT ![c] = w.txOpen]
    /\ srvOpen' = w.open
    /\ srvVersions' = w.versions
    /\ nextTok' = w.nextTok
    /\ srvCatalogue' = w.catalogue
    /\ log' = w.log
    /\ lastOp' = [method |-> method, schema |-> <<>>, nrows |-> 0, ncols |-> 0,
                  args |-> [client |-> c,
                            obtained |-> [lastOp.args.obtained EXCEPT
                                             ![c] = @ \cup Obtained(w.log)]],
                  exc |-> w.exc, ret |-> w.ret]

\* the end of a call of client c: self.session and self._authenticated are
\* attributes of the instance, set in its __init__
ClientDone(c, w, method) ==
    /\ authenticated' = [authenticated EXCEPT ![c] = w.auth]
    /\ sessionToken' = [sessionToken EXCEPT ![c] = w.token]
    /\ clientTxOpen' = [clientTxOpen EXCEPT ![c] = w.txOpen]
    /\ srvOpen' = w.open
    /\ srvVersions' = w.versions
    /\ nextTok' = w.nextTok
    /\ srvCatalogue' = w.catalogue
    /\ log' = w.log
    /\ lastOp' = [method |-> method, schema |-> <<>>, nrows |-> 0, ncols |-> 0,
                  args |-> [client |-> c,
                            obtained |-> [lastOp.args.obtained EXCEPT
                                             ![c] = @ \cup Obtained(w.log)]],
                  exc |-> w.exc, ret |-> w.ret]

ClientAuthenticate ==
    \E c \in Clients, f \in FaultPlans(1, 0) :
        ClientDone(c, Authenticate(ClientStart(c, f)), "authenticate")

ClientBeginTransaction ==
    /\ nextTok <= MaxTokens
    /\ \E c \in Clients, f \in FaultPlans(2, 0) :
          ClientDone(c, begin_transaction(ClientStart(c, f)), "begin_transaction")

ClientCommitTransaction ==
    \E c \in Clients, f \in FaultPlans(2, 0) :
        ClientDone(c, commit_transaction(ClientStart(c, f)), "commit_transaction")

ClientRollbackTransaction ==
    \E c \in Clients, f \in FaultPlans(2, 0) :
        ClientDone(c, rollback_transaction(ClientStart(c, f)), "rollback_transaction")

ClientExecuteQuery ==
    \E c \in Clients, f \in FaultPlans(2, 0) :
        ClientDone(c, execute_query(ClientStart(c, f), Query), "execute_query")

NextClients ==
    \/ ClientAuthenticate
    \/ ClientBeginTransaction
    \/ ClientCommitTransaction
    \/ ClientRollbackTransaction
    \/ ClientExecuteQuery

SpecClients == InitClients /\ [][NextClients]_vars

\* the configuration: from_env on an environment, then to_dict on what it returned
InitConfig == Idle /\ \E parts \in Environments : Given(Environ(parts))

CallFromEnv ==
    /\ lastOp.method = "__init__"
    /\ lastOp' = [lastOp EXCEPT !.method = "from_env",
                                !.exc = from_env(lastOp.args[1]).exc,
                                !.ret = from_env(lastOp.args[1]).ret]
    /\ UNCHANGED <<authenticated, sessionToken, srvOpen, srvVersions, nextTok, srvCatalogue,
                   clientTxOpen, log>>

CallToDict ==
    /\ lastOp.method = "from_env" /\ lastOp.exc = NoExc
    /\ lastOp' = [lastOp EXCEPT !.method = "to_dict", !.args = lastOp.ret,
                                !.ret = <<to_dict(lastOp.ret[1])>>]
    /\ UNCHANGED <<authenticated, sessionToken, srvOpen, srvVersions, nextTok, srvCatalogue,
                   clientTxOpen, log>>

NextConfig ==
    \/ CallFromEnv
    \/ CallToDict

SpecConfig == InitConfig /\ [][NextConfig]_vars

\* the schema manager, against a server whose catalogue is followed
InitSchema ==
    /\ authenticated = TRUE
    /\ sessionToken = NoToken
    /\ srvOpen = {}
    /\ srvVersions = <<>>
    /\ nextTok = 1
    /\ srvCatalogue = EmptyCatalogue
    /\ clientTxOpen = FALSE
    /\ log = <<>>
    /\ lastOp = [method |-> "__init__", schema |-> <<>>, nrows |-> 0, ncols |-> 0,
                 args |-> <<>>, exc |-> NoExc, ret |-> <<>>]

NextSchema ==
    \/ CallAuthenticate
    \/ CallCreateSchema
    \/ CallCreateProperty
    \/ CallDropSchema

SpecSchema == InitSchema /\ [][NextSchema]_vars

----------------------------------------------------------------------------
(* Observations on the last call *)

\* the INSERT commands of the last call, in issue order
Inserts == SelectSeq(log, LAMBDA r : r.kind = "command" /\ r.cmd.verb = "INSERT")

Requests(kind) == {i \in DOMAIN log : log[i].kind = kind}

VersionCommands == {i \in DOMAIN log : log[i].kind = "command" /\ log[i].cmd.verb = "INSERT_VERSION"}

InsertCall == lastOp.method \in {"insert_data", "insert_dataframe"}

Returned == lastOp.exc = NoExc

\* the batch size and the number of batches of the frame the last call was given
LastBatchSize == IF lastOp.ncols < ColumnThreshold THEN NarrowBatchSize ELSE BATCH_SIZE
LastBatches == (lastOp.nrows + LastBatchSize - 1) \div LastBatchSize

----------------------------------------------------------------------------
(* Batch chunking *)

\* C1: insert_data called with exactly 2*B + 1 rows (B the batch size), no
\* request failing, issues exactly 3 INSERT commands and the last of them
\* carries exactly 1 row.
C1_ChunkingBoundary ==
    (lastOp.method = "insert_data" /\ Returned /\ lastOp.nrows = 2 * LastBatchSize + 1)
        => (Len(Inserts) = 3 /\ Len(Inserts[3].cmd.rows) = 1)

\* C2: when no batch fails, the rows of the INSERT commands of insert_data,
\* concatenated in issue order, are exactly the N >= 1 input rows in input
\* order, and every batch but the last holds B rows.
C2_EveryRowOnce ==
    (lastOp.method = "insert_data" /\ Returned /\ lastOp.nrows >= 1)
        => /\ Concat([i \in DOMAIN Inserts |-> Inserts[i].cmd.rows])
                = [i \in 1..lastOp.nrows |-> i]
           /\ \A i \in 1..(Len(Inserts) - 1) : Len(Inserts[i].cmd.rows) = LastBatchSize

----------------------------------------------------------------------------
(* Failure of a batch *)

\* C3: when insert_data has three batches to send and the request for the
\* second fails, exactly one rollback request is issued, no commit request is
\* issued, the third batch is never sent, and the error raised names the table.
C3_RollbackOnSecondBatch ==
    (lastOp.method = "insert_data" /\ LastBatches = 3 /\ Len(Inserts) >= 2 /\ ~Inserts[2].ok)
        => /\ Cardinality(Requests("rollback")) = 1
           /\ Requests("commit") = {}
           /\ Len(Inserts) = 2
           /\ ~Returned
           /\ lastOp.schema \in lastOp.exc.names

\* C4: when a batch INSERT fails and the rollback request that follows fails
\* too, the error surfaced still reports the insert failure.
C4_InsertFailureNotMasked ==
    (InsertCall /\ (\E i \in DOMAIN Inserts : ~Inserts[i].ok)
                /\ (\E i \in Requests("rollback") : ~log[i].ok))
        => \E k \in DOMAIN lastOp.exc.msg :
               lastOp.exc.msg[k] = "Failed to insert records into schema"

----------------------------------------------------------------------------
(* Version log *)

\* C5: in insert_dataframe the INSERT INTO versions command for a table is
\* sent only after every batch INSERT for the table has succeeded.
C5_VersionAfterRows ==
    lastOp.method = "insert_dataframe"
        => \A v \in VersionCommands :
               Cardinality({i \in 1..(v - 1) : /\ log[i].kind = "command"
                                                /\ log[i].cmd.verb = "INSERT"
                                                /\ log[i].ok}) = LastBatches

----------------------------------------------------------------------------
(* Transactions *)

\* C6: at most one transaction begun by the client is open on the server at
\* any time.
C6_AtMostOneOpen == Cardinality(srvOpen) <= 1

\* C7: a request carries the transaction token exactly while the client's
\* transaction is open: after a successful begin and before the commit or
\* rollback that closes it, and never after a successful commit or rollback
\* (until the next begin).
C7_TokenOnlyWhileOpen ==
    \A i \in DOMAIN log : log[i].txOpen <=> (log[i].token # NoToken)

\* C8: insert_data and insert_dataframe never issue a commit request; once all
\* batches were sent the transaction the call began is open on the server, and
\* no call other than commit_transaction / rollback_transaction closes a
\* transaction that was open before the call.
C8_AfterInsert ==
    InsertCall =>
        /\ Requests("commit") = {}
        /\ (Returned /\ lastOp.nrows > 0) =>
               /\ Cardinality(Requests("begin")) = 1
               /\ \A b \in Requests("begin") :
                      log[b].ok /\ log[b].resp.sid \in srvOpen /\ sessionToken = log[b].resp.sid

C8_ClosedOnlyByCaller ==
    (srvOpen \subseteq srvOpen') \/ lastOp'.method \in {"commit_transaction", "rollback_transaction"}

C8_NoImplicitCommit == []C8_AfterInsert /\ [][C8_ClosedOnlyByCaller]_vars

\* C8 witness: insert_data sent three batches and returned, its transaction open
C8_Witness ==
    /\ lastOp.method = "insert_data" /\ Returned
    /\ Len(Inserts) = 3 /\ \A i \in 1..3 : Inserts[i].ok
    /\ sessionToken \in srvOpen

----------------------------------------------------------------------------
(* Version resolver *)

\* the versions rows for the (bucket, classname) of the last get_next_version call
LastVersions ==
    {srvVersions[i].version : i \in Visible(srvVersions, sessionToken, lastOp.schema[2], lastOp.schema[1])}

\* C9: get_next_version returns (v + 1, true) when the log holds entries for
\* (table, bucket) with maximum version v >= 1, and (1, false) when it holds
\* none or when the maximum is 0.
C9_NextVersion ==
    (lastOp.method = "get_next_version" /\ Returned)
        => IF LastVersions = {} \/ MaxOf(LastVersions) = 0
           THEN lastOp.ret = <<1, FALSE>>
           ELSE lastOp.ret = <<MaxOf(LastVersions) + 1, TRUE>>

\* C10: when the MAX(version) query is answered with one row whose lastVersion
\* is absent or null, get_next_version returns (1, false) and does not raise.
C10_NullAggregate ==
    (lastOp.method = "get_next_version"
        /\ \E i \in DOMAIN log :
              /\ log[i].kind = "command" /\ log[i].ok /\ Len(log[i].resp.rows) = 1
              /\ (~log[i].resp.rows[1].has \/ log[i].resp.rows[1].null))
        => (Returned /\ lastOp.ret = <<1, FALSE>>)

----------------------------------------------------------------------------
(* Identifier codec *)

\* the tuple the last _parse_table_name call returned
Decoded == lastOp.ret[1]

\* C13: for all non-empty bucket and table and every version >= 0, decoding
\* bucket#table#version returns the same bucket, the same table, and the
\* version as the same integer.
C13_RoundTrip ==
    lastOp.method = "_parse_table_name"
        => /\ Decoded.some
           /\ Decoded.bucket = lastOp.args[1]
           /\ Decoded.classname = lastOp.args[2]
           /\ Decoded.version.type = "int"
           /\ Decoded.version.value = lastOp.args[3]

HasSeparator(str) == \E i \in DOMAIN str : str[i] = "#"

\* C13 as amended: for all non-empty bucket and table without '#' and every
\* version >= 0, decoding bucket#table#version returns the same bucket, the
\* same table, and the version as the string of its decimal numeral.
C13_RoundTripText ==
    (lastOp.method = "_parse_table_name"
        /\ ~HasSeparator(lastOp.args[1]) /\ ~HasSeparator(lastOp.args[2]))
        => /\ Decoded.some
           /\ Decoded.bucket = lastOp.args[1]
           /\ Decoded.classname = lastOp.args[2]
           /\ Decoded.version = [type |-> "str", value |-> Numeral(lastOp.args[3])]

\* C13 witness: U#Up#10 was decoded
C13_Witness ==
    /\ lastOp.method = "_parse_table_name"
    /\ lastOp.args = << <<"U">>, <<"U", "p">>, 10 >>
    /\ lastOp.schema = <<"U", "#", "U", "p", "#", "1", "0">>
    /\ Decoded.some

----------------------------------------------------------------------------
(* Latest identifier *)

\* the requests of the last call that query the versions table
VersionQueries ==
    {i \in DOMAIN log : log[i].kind = "command" /\ log[i].cmd.target = VersionsType}

\* C11: get_latest_table_name(name) with no bucket returns name unchanged and
\* does not query the versions table, for every name that is not of the
\* 3-part shape: names without '#', and names with '#' whose number of parts
\* is not 3.
C11_PassThrough ==
    (lastOp.method = "get_latest_table_name" /\ lastOp.args = <<NoBucket>>
        /\ Len(lastOp.schema) # 3 /\ lastOp.exc.kind # "ArcadeDBAuthenticationError")
        => (Returned /\ lastOp.ret = <<lastOp.schema>> /\ VersionQueries = {})

\* the (bucket, table) the last get_latest_table_name call resolves: the parts
\* of a 3-part name, or the bare name and the bucket given
Resolved ==
    IF lastOp.args = <<NoBucket>> THEN [bucket |-> lastOp.schema[1], table |-> lastOp.schema[2]]
    ELSE [bucket |-> lastOp.args[1], table |-> lastOp.schema[1]]

ResolvedVersions ==
    {srvVersions[i].version :
        i \in Visible(srvVersions, sessionToken, Resolved.table, Resolved.bucket)}

\* C12: get_latest_table_name resolving (table, bucket), its query answered,
\* returns bucket#table#m when the versions log holds entries for (table,
\* bucket) with maximum version m, and bucket#table#0 when it holds none.
C12_LatestIdentifier ==
    (lastOp.method = "get_latest_table_name"
        /\ (IF lastOp.args = <<NoBucket>> THEN Len(lastOp.schema) = 3 ELSE Len(lastOp.schema) = 1)
        /\ \E i \in VersionQueries : log[i].ok)
        => /\ Returned
           /\ lastOp.ret = << <<Resolved.bucket, Resolved.table,
                                IF ResolvedVersions = {} THEN "0"
                                ELSE FormatVersion(MaxOf(ResolvedVersions))>> >>

----------------------------------------------------------------------------
(* Cursor paginator *)

\* the COUNT and the page requests of the last call, by their position in it
CountRequests == {i \in DOMAIN log : log[i].kind = "command" /\ log[i].cmd.verb = "COUNT"}
PageRequests == {i \in DOMAIN log : log[i].kind = "command" /\ log[i].cmd.verb = "SELECT"}

\* the scan of the last call took place: COUNT was answered, and so was every
\* page query
Counted == \E i \in CountRequests : log[i].ok
Scanned == Counted /\ \A i \in PageRequests : log[i].ok

C15_EmptyTable ==
    (lastOp.method = "read_data" /\ lastOp.nrows = 0 /\ Scanned)
        => /\ Returned
           /\ lastOp.ret[1].rows = <<>>
           /\ Cardinality(PageRequests) = (IF lastOp.args.count = 0 THEN 0 ELSE 1)

\* C15 witness: a stale positive count, one page request, an empty result
C15_Witness ==
    /\ lastOp.method = "read_data" /\ Returned
    /\ lastOp.nrows = 0 /\ lastOp.args.count > 0
    /\ Cardinality(PageRequests) = 1
    /\ lastOp.ret[1].rows = <<>>

\* the predicates of a filter, without the record-id cursor of a page
Predicates(clauses) ==
    {<<clauses[i].pred, clauses[i].arg>> : i \in {j \in DOMAIN clauses : clauses[j].pred # "@rid >"}}

\* C16: for every combination of condition, customer_type_id and is_not_null,
\* the COUNT query of read_data carries the same filter predicates as the
\* SELECT queries of the paginated read that follows it.
C16_SameFilter ==
    lastOp.method = "read_data"
        => \A c \in CountRequests, q \in PageRequests :
               Predicates(log[c].cmd.args) = Predicates(log[q].cmd.args[1])

\* C17: read_incremental_data always returns a pair (rows, cursor): the cursor
\* is the record id of the last row of a non-empty page, and the input cursor
\* whenever no rows are returned, the empty table included.
C17_RowsAndCursor ==
    (lastOp.method = "read_incremental_data" /\ Returned)
        => /\ Len(lastOp.ret) = 2
           /\ lastOp.ret[2] = IF lastOp.ret[1].rows = <<>> THEN lastOp.args.last_rid
                               ELSE lastOp.ret[1].rows[Len(lastOp.ret[1].rows)]

----------------------------------------------------------------------------
(* Validation of the column descriptors *)

\* C18: when a descriptor of the list given to insert_dataframe / insert_data
\* (any of them, not only the first) lacks name, type or index, the call raises
\* a validation error and has issued no request at all when it does.
C18_ValidatedBeforeRequests ==
    (InsertCall /\ \E k \in DOMAIN lastOp.args :
                       ~({"name", "type", "index"} \subseteq lastOp.args[k].keys))
        => /\ lastOp.exc.kind \in {"ArcadeDBError", "ValueError"}
           /\ lastOp.exc.msg[1] \in {"Invalid columns format",
                                     "Column definition must contain 'name' key"}
           /\ log = <<>>

----------------------------------------------------------------------------
(* Schema manager *)

\* the schema commands of the last call that reached the server
SchemaCommands(verb) ==
    {i \in DOMAIN log : log[i].kind = "command" /\ log[i].cmd.verb = verb}

\* C19: drop_schema emits the UNSAFE modifier only when the caller opted in;
\* drop_schema(name) has no argument to opt in with, so no DROP TYPE command of
\* a call carries UNSAFE, and each is DROP TYPE <name> IF EXISTS.
C19_UnsafeOnlyOnOptIn ==
    lastOp.method = "drop_schema"
        => \A i \in SchemaCommands("DROP_TYPE") :
               /\ log[i].cmd.target.name = lastOp.schema
               /\ log[i].cmd.args = <<"IF EXISTS">>

\* C20: against a server that refuses to create what exists unless the command
\* says IF NOT EXISTS, create_schema issues CREATE DOCUMENT TYPE ... IF NOT
\* EXISTS and does not raise when the type exists, and create_property does
\* not raise when the property exists (no request failing in transit).
C20_SchemaIdempotent ==
    /\ lastOp.method = "create_schema" =>
           /\ \A i \in SchemaCommands("CREATE_TYPE") : log[i].cmd.args = <<"IF NOT EXISTS">>
           /\ (\A i \in DOMAIN log : log[i].resp.status # 0) => Returned
    /\ lastOp.method = "create_property" =>
           ((\A i \in DOMAIN log : log[i].resp.status # 0) => Returned)

----------------------------------------------------------------------------
(* Error propagation and authentication *)

\* the outcome the failing request of the last call met (Ok: none failed)
LastOutcome == lastOp.args[1]

PublicCall ==
    lastOp.method \in {"connect", "authenticate", "execute_query", "list_classes",
                       "get_server_info", "list_databases", "count_values_schema",
                       "read_data"}

\* the authentication requests among the requests of a call
AuthRequests(requests) == {i \in DOMAIN requests : requests[i].kind = "exists"}

\* C21: whichever public operation issued the request that failed, the error
\* the caller gets keeps the kind and the status of the failure: 401 gives an
\* authentication error with status 401, 404 an error with status 404, any
\* other status >= 400 an error with that status, a timeout a timeout error,
\* a connection failure a connection error.
C21_KindAndStatusPreserved ==
    (PublicCall /\ LastOutcome # Ok) =>
        /\ LastOutcome.status = 401 =>
              lastOp.exc.kind = "ArcadeDBAuthenticationError" /\ lastOp.exc.status = 401
        /\ LastOutcome.status >= 400 => lastOp.exc.status = LastOutcome.status
        /\ "Timeout" \in LastOutcome.classes => lastOp.exc.kind = "ArcadeDBTimeoutError"
        /\ LastOutcome.classes = {"ConnectionError", "RequestException"} =>
              lastOp.exc.kind = "ArcadeDBConnectionError"

\* C22: _make_request gives each outcome of the HTTP call exactly one result:
\* 401 raises ArcadeDBAuthenticationError with status_code 401; 404 raises
\* ArcadeDBError with status_code 404 and 'Resource not found'; any other
\* status >= 400 raises ArcadeDBError with that status and the 'error' text of
\* the body when it has one; a timeout raises ArcadeDBTimeoutError; a
\* connection failure ArcadeDBConnectionError; another request exception
\* ArcadeDBError 'Request failed'; below 400 the response is returned.
C22_OutcomeMapping ==
    lastOp.method = "_make_request" =>
        CASE LastOutcome = Ok -> Returned /\ lastOp.ret = <<200>>
          [] LastOutcome.status = 401 ->
                lastOp.exc.kind = "ArcadeDBAuthenticationError" /\ lastOp.exc.status = 401
          [] LastOutcome.status = 404 ->
                /\ lastOp.exc.kind = "ArcadeDBError" /\ lastOp.exc.status = 404
                /\ Head(lastOp.exc.msg) = "Resource not found"
          [] LastOutcome.status >= 400 ->
                /\ lastOp.exc.kind = "ArcadeDBError"
                /\ lastOp.exc.status = LastOutcome.status
                /\ LastOutcome.error # "" => lastOp.exc.msg = <<LastOutcome.error>>
          [] "Timeout" \in LastOutcome.classes ->
                lastOp.exc.kind = "ArcadeDBTimeoutError" /\ lastOp.exc.status = NoStatus
          [] "ConnectionError" \in LastOutcome.classes ->
                lastOp.exc.kind = "ArcadeDBConnectionError" /\ lastOp.exc.status = NoStatus
          [] OTHER ->
                /\ lastOp.exc.kind = "ArcadeDBError" /\ lastOp.exc.status = NoStatus
                /\ lastOp.exc.msg = <<"Request failed">>

\* a connect timeout reached _make_request and came out as a timeout error
C22_Witness ==
    /\ lastOp.method = "_make_request"
    /\ LastOutcome = Exception({"ConnectionError", "Timeout", "RequestException"})
    /\ lastOp.exc.kind = "ArcadeDBTimeoutError"

\* the requests of a call that authenticates lazily, on a client that was
\* authenticated or not when the call started: no authentication request, or
\* exactly one, the first request of the call, followed by the requests of the
\* operation when it was accepted and by none when it was rejected
OncePerOperation(requests, was, exc) ==
    IF was THEN AuthRequests(requests) = {}
    ELSE /\ AuthRequests(requests) = {1}
         /\ IF requests[1].ok THEN Len(requests) > 1
            ELSE Len(requests) = 1 /\ exc # NoExc

\* C23, as stated: every operation called on an unauthenticated client
\* issues exactly one authentication request before its own request, on an
\* authenticated client none, and after a rejected authentication it raises
\* without another request.
C23_EveryOperation ==
    [][lastOp'.method \in {"execute_query", "list_classes", "count_values_schema",
                           "read_data", "get_server_info", "list_databases"}
         => OncePerOperation(log', authenticated, lastOp'.exc)]_vars

\* C23, amended: the same of the operations that begin with
\* `if not self._authenticated: self.authenticate()`; get_server_info and
\* list_databases issue their request without authenticating first.
C23_LazyOnce ==
    [][lastOp'.method \in {"execute_query", "list_classes", "count_values_schema",
                           "read_data"}
         => OncePerOperation(log', authenticated, lastOp'.exc)]_vars

\* read_data, which calls two operations that authenticate lazily themselves,
\* ran to its end on a client that was not authenticated
C23_Witness ==
    /\ lastOp.method = "read_data" /\ Returned
    /\ AuthRequests(log) = {1} /\ Len(log) = 3 + Pages(1, NEW_PAGE_SIZE)

\* C24: the authenticated flag is true exactly when the most recent
\* authenticate call (explicit or lazy) succeeded; an authenticate call that
\* succeeds returns True, one that fails in any way raises
\* ArcadeDBAuthenticationError.
C24_FlagFollowsAuthenticate ==
    [][/\ AuthRequests(log') = {} => authenticated' = authenticated
       /\ \A i \in AuthRequests(log') : authenticated' = log'[i].ok
       /\ lastOp'.method = "authenticate" =>
             IF log'[1].ok THEN lastOp'.exc = NoExc /\ lastOp'.ret = <<TRUE>>
             ELSE lastOp'.exc.kind = "ArcadeDBAuthenticationError"]_vars

\* an authenticate call that timed out left the flag false
C24_Witness ==
    /\ lastOp.method = "authenticate"
    /\ LastOutcome = Exception({"Timeout", "RequestException"})
    /\ ~authenticated
    /\ lastOp.exc.kind = "ArcadeDBAuthenticationError"

\* C25: a connect() that succeeds has issued exactly one HTTP request and
\* returns True.
C25_ConnectOneRequest ==
    (lastOp.method = "connect" /\ Returned) => (Len(log) = 1 /\ lastOp.ret = <<TRUE>>)

----------------------------------------------------------------------------
(* Silent failures *)

\* C26: an operation that cannot do its work raises: save_version called with
\* a name that does not parse as bucket#table#version does not return
\* normally having recorded nothing.
C26_NoSilentFailure ==
    (lastOp.method = "save_version" /\ ~_parse_table_name(lastOp.schema).some) => ~Returned

----------------------------------------------------------------------------
(* The COUNT command *)

\* C28: count_values_schema emits the schema name back-quoted in its COUNT
\* command whatever the name, with the filter of each of the four
\* combinations of customer_type_id and is_not_null, and returns the
\* 'counting' field of the first row of the answer.
C28_CountQuery ==
    (lastOp.method = "count_values_schema" /\ Returned) =>
        /\ log[Len(log)].cmd.verb = "COUNT"
        /\ log[Len(log)].cmd.target = [name |-> lastOp.schema, quoted |-> TRUE]
        /\ log[Len(log)].cmd.args = CountFilter(lastOp.args[2], lastOp.args[3])
        /\ lastOp.ret = <<lastOp.args[4]>>

----------------------------------------------------------------------------
(* Literals *)

\* the text in which every occurrence of the character ch is replaced by `by`
RECURSIVE Each(_, _, _)
Each(str, ch, by) ==
    IF str = <<>> THEN <<>>
    ELSE (IF Head(str) = ch THEN by ELSE <<Head(str)>>) \o Each(Tail(str), ch, by)

\* C27: the batch writer encodes a cell by the first rule that matches: None
\* or NaN gives NULL; a list gives '[' item ',' item ... ']' with the double
\* quotes of each item escaped; a string gives a single-quoted literal in
\* which every ' and every " is doubled; a boolean gives true / false; any
\* other value its str().
C27_CellLiteral ==
    lastOp.method = "row_value" =>
        LET val == lastOp.args[1]
            out == lastOp.ret[1]
        IN CASE val = PyNone \/ val = PyNaN -> out = <<"N", "U", "L", "L">>
             [] val.type = "list" ->
                   out = <<"[">>
                         \o Join(<<",">>, [i \in DOMAIN val.items |->
                              <<"\"">> \o Each(Str(val.items[i]), "\"", <<"\\", "\"">>)
                              \o <<"\"">>])
                         \o <<"]">>
             [] val.type = "str" ->
                   out = <<"'">> \o Each(Each(val.s, "'", <<"'", "'">>), "\"", <<"\"", "\"">>)
                         \o <<"'">>
             [] val = PyBool(TRUE) -> out = <<"t", "r", "u", "e">>
             [] val = PyBool(FALSE) -> out = <<"f", "a", "l", "s", "e">>
             [] OTHER -> out = Str(val)

\* a string with both kinds of quote was encoded
C27_Witness ==
    /\ lastOp.method = "row_value"
    /\ lastOp.args[1] = PyStr(<<"'", "\"">>)
    /\ lastOp.ret[1] = <<"'", "'", "'", "\"", "\"", "'">>

\* the clause the claim gives for a condition
ClaimedClause(field, value) ==
    CASE value.type = "str" -> field \o <<" ", "=", " ", "'">> \o value.s \o <<"'">>
      [] value = PyBool(TRUE) -> field \o <<" ", "=", " ", "t", "r", "u", "e">>
      [] value = PyBool(FALSE) -> field \o <<" ", "=", " ", "f", "a", "l", "s", "e">>
      [] value = PyNone -> field \o <<" ", "I", "S", " ", "N", "U", "L", "L">>
      [] OTHER -> field \o <<" ", "=", " ">> \o Str(value)

\* C29: build_where_clause returns "" for no conditions and otherwise
\* 'WHERE ' and one clause per condition joined by ' AND ': field = 'value'
\* for a string, field = number for a number, field = true / field = false
\* for a boolean, field IS NULL for None.
C29_WhereClause ==
    (/\ lastOp.method = "build_where_clause"
     /\ \A i \in DOMAIN lastOp.args[1] : lastOp.args[1][i].value.type # "list") =>
        lastOp.ret[1] =
            IF lastOp.args[1] = <<>> THEN <<>>
            ELSE <<"W", "H", "E", "R", "E", " ">>
                 \o Join(<<" ", "A", "N", "D", " ">>,
                         [i \in DOMAIN lastOp.args[1] |->
                            ClaimedClause(lastOp.args[1][i].field, lastOp.args[1][i].value)])

\* C30: sanitize_identifier returns "unnamed" for the empty string and for a
\* string of blanks only; otherwise it replaces every character outside
\* [a-zA-Z0-9_] by '_' and puts '_' before a result that starts with a digit
\* (so a valid identifier comes back unchanged).
C30_Sanitized ==
    lastOp.method = "sanitize_identifier" =>
        LET identifier == lastOp.args[1]
            replaced == [i \in DOMAIN identifier |->
                           IF identifier[i] \in Letters \cup DigitChars \cup {"_"}
                           THEN identifier[i] ELSE "_"]
        IN IF \A i \in DOMAIN identifier : identifier[i] = " "
           THEN lastOp.ret[1] = <<"u", "n", "n", "a", "m", "e", "d">>
           ELSE lastOp.ret[1] = IF replaced[1] \in DigitChars THEN <<"_">> \o replaced
                                ELSE replaced

----------------------------------------------------------------------------
(* Configuration *)

\* the variable is set in the environment from_env was given
IsSet(env_var) == lastOp.args[1][env_var] # Unset

\* C31: from_env builds the configuration from ARCADEDB_DATABASE,
\* ARCADEDB_USERNAME and ARCADEDB_PASSWORD, with ARCADEDB_HOST, ARCADEDB_PORT
\* and ARCADEDB_USE_SSL optional (defaults localhost, 2480, false); a missing
\* password raises ArcadeDBConfigurationError naming ARCADEDB_PASSWORD, and a
\* port that is not an integer raises ArcadeDBConfigurationError.
C31_FromEnv ==
    lastOp.method = "from_env" =>
        /\ ~IsSet("ARCADEDB_PASSWORD") =>
              /\ lastOp.exc.kind = "ArcadeDBConfigurationError"
              /\ "ARCADEDB_PASSWORD" \in lastOp.exc.names
        /\ (IsSet("ARCADEDB_PORT") /\ IntRaises(lastOp.args[1]["ARCADEDB_PORT"])) =>
              lastOp.exc.kind = "ArcadeDBConfigurationError"
        /\ (/\ IsSet("ARCADEDB_DATABASE") /\ IsSet("ARCADEDB_USERNAME")
            /\ IsSet("ARCADEDB_PASSWORD")
            /\ lastOp.args[1]["ARCADEDB_PORT"] \in {Unset, <<"8", "0">>}) =>
              /\ Returned
              /\ lastOp.ret[1].database = lastOp.args[1]["ARCADEDB_DATABASE"]
              /\ lastOp.ret[1].username = lastOp.args[1]["ARCADEDB_USERNAME"]
              /\ lastOp.ret[1].password = lastOp.args[1]["ARCADEDB_PASSWORD"]
              /\ lastOp.ret[1].host = IF IsSet("ARCADEDB_HOST")
                                      THEN lastOp.args[1]["ARCADEDB_HOST"] ELSE DefaultHost
              /\ lastOp.ret[1].port = IF IsSet("ARCADEDB_PORT") THEN 80 ELSE DefaultPort
              /\ lastOp.ret[1].use_ssl =
                    (lastOp.args[1]["ARCADEDB_USE_SSL"] \in {<<"t", "r", "u", "e">>, <<"O", "N">>})

\* C32: to_dict does not reveal the password: its password field is "***",
\* every other field is the configured value, and the configurations that
\* differ from this one only in their password give the same result.
C32_PasswordMasked ==
    lastOp.method = "to_dict" =>
        /\ lastOp.ret[1].password = <<"*", "*", "*">>
        /\ [lastOp.ret[1] EXCEPT !.password = lastOp.args[1].password] = lastOp.args[1]
        /\ \A password \in Passwords :
              to_dict([lastOp.args[1] EXCEPT !.password = password]) = lastOp.ret[1]

\* the configuration with password q was turned into a dict
C32_Witness ==
    /\ lastOp.method = "to_dict"
    /\ lastOp.args[1].password = <<"q">>
    /\ lastOp.ret[1].username = <<"u">>

----------------------------------------------------------------------------
(* Credentials *)

\* C33: the credentials go with a request exactly when authentication is
\* requested: _make_request called with authenticate=False sends none (and
\* with True sends them), and get_server_info sends them if and only if the
\* client was authenticated when it was called.
C33_CredentialsWhenRequested ==
    [][/\ lastOp'.method = "_make_request" => log'[1].cred = lastOp'.args[2]
       /\ lastOp'.method = "get_server_info" => log'[1].cred = authenticated
       /\ lastOp'.method = "connect" => ~log'[1].cred]_vars

\* get_server_info on a client that is not authenticated sent no credentials
C33_Witness ==
    /\ lastOp.method = "get_server_info" /\ Returned
    /\ ~authenticated /\ ~log[1].cred

----------------------------------------------------------------------------
(* Retries *)

Attempts == Len(log)
LastStatus == log[Len(log)].status

\* C34: the retry strategy treats POST like the idempotent methods.  A request
\* (GET or POST, so a batch INSERT too) answered with 429, 500, 502, 503 or 504
\* is sent again, at most max_retries additional times; a request answered
\* with any other status is never sent again.
C34_RetryPolicy ==
    /\ [][Attempts' > Attempts /\ Attempts > 0
            => /\ LastStatus \in {429, 500, 502, 503, 504}
               /\ Attempts' = Attempts + 1
               /\ Attempts' <= 1 + lastOp.args[2]]_vars
    /\ \A n \in 1..MaxRetries :
          (Attempts = n /\ n <= lastOp.args[2] /\ LastStatus \in {429, 500, 502, 503, 504})
              ~> (Attempts = n + 1)

\* a POST reached the server three times under max_retries = 2
C34_Witness ==
    /\ Attempts = 3 /\ lastOp.args = <<"POST", 2>>
    /\ \A i \in 1..3 : log[i].method = "POST"

----------------------------------------------------------------------------
(* The page queries of read_data *)

\* C35: every page query of read_data is well formed, for every combination
\* of condition, customer_type_id and is_not_null and for every page: the
\* first predicate (a filter or the record-id cursor) follows WHERE and each
\* further one follows AND, so there is one WHERE and no AND before it.
C35_PageQueriesWellFormed ==
    lastOp.method = "read_data"
        => \A q \in PageRequests : WellFormed(log[q].cmd.args[1])

----------------------------------------------------------------------------
(* Termination of the scan *)

\* C36: read_data terminates on every finite table whose server honours the
\* cursor bound.  Every page request raises, ends the loop, or advances the
\* cursor, which strictly increases from one page request to the next; and
\* the call eventually returns or raises.
C36_ScanTerminates ==
    /\ [][lastOp.args.more
            => /\ Len(log') = Len(log) + 1
               /\ CursorOf(log'[Len(log')].cmd.args[1]) = lastOp.args.last_rid
               /\ \/ ~lastOp'.args.more /\ lastOp'.args.w.exc.kind = "ArcadeDBError"
                  \/ ~lastOp'.args.more /\ lastOp'.args.w.exc = NoExc
                        /\ lastOp'.args.w.ret[1].type = "DataFrame"
                  \/ lastOp'.args.more /\ lastOp'.args.w.exc = NoExc
                        /\ lastOp'.args.last_rid > lastOp.args.last_rid]_vars
    /\ <>(~lastOp.args.more)

\* the scan of an unfiltered table of three pages has returned every row
\* after page requests with the cursors 0, NEW_PAGE_SIZE, 2 * NEW_PAGE_SIZE
C36_Witness ==
    /\ ~lastOp.args.more /\ lastOp.args.w.exc = NoExc
    /\ lastOp.nrows = 2 * NEW_PAGE_SIZE + 1
    /\ Len(lastOp.args.w.ret[1].rows) = lastOp.nrows
    /\ [q \in DOMAIN log |-> CursorOf(log[q].cmd.args[1])] = <<0, NEW_PAGE_SIZE, 2 * NEW_PAGE_SIZE>>

----------------------------------------------------------------------------
(* One column, three names *)

PropertyRequests ==
    {i \in DOMAIN log : log[i].kind = "command" /\ log[i].cmd.verb = "CREATE_PROPERTY"}

\* C37: within one insert_dataframe call, for every column descriptor the
\* name of the property created, the column named in the INSERT statement and
\* the key the cell is read with denote the same column of the frame, also
\* when the name has characters outside [a-zA-Z0-9_]: the properties created
\* are the labels of the frame, the read of a cell does not fail for want of
\* the label, and the INSERT names the columns the properties were created for.
C37_SameColumn ==
    (lastOp.method = "insert_dataframe" /\ \A i \in DOMAIN log : log[i].ok)
        => /\ lastOp.exc.kind # "KeyError"
           /\ \A p \in PropertyRequests :
                  \E k \in DOMAIN lastOp.args : log[p].cmd.args[1] = lastOp.args[k].name
           /\ \A i \in DOMAIN Inserts :
                  Inserts[i].cmd.args = [k \in DOMAIN lastOp.args |-> lastOp.args[k].name]

----------------------------------------------------------------------------
(* Empty frames and failed begins *)

Sent(requests, kind) == {i \in DOMAIN requests : requests[i].kind = kind}
SentCommands(requests, verb) ==
    {i \in DOMAIN requests : requests[i].kind = "command" /\ requests[i].cmd.verb = verb}

\* C38: empty input changes nothing.  insert_data given an empty frame issues
\* no begin, no INSERT and no rollback; insert_dataframe given an empty frame
\* issues no INSERT INTO versions and opens no transaction (and no INSERT);
\* neither changes the session token, the open transactions or the version log.
C38_EmptyInput ==
    [][(lastOp'.method \in {"insert_data", "insert_dataframe"} /\ lastOp'.nrows = 0)
          => /\ Sent(log', "begin") = {} /\ Sent(log', "rollback") = {}
             /\ SentCommands(log', "INSERT") = {}
             /\ SentCommands(log', "INSERT_VERSION") = {}
             /\ sessionToken' = sessionToken /\ clientTxOpen' = clientTxOpen
             /\ srvOpen' = srvOpen /\ srvVersions' = srvVersions]_vars

\* insert_data given an empty frame returned without a request, and
\* insert_dataframe given one returned after creating the two properties
C38_Witness ==
    /\ InsertCall /\ lastOp.nrows = 0 /\ Returned
    /\ \/ lastOp.method = "insert_data" /\ log = <<>>
       \/ lastOp.method = "insert_dataframe" /\ Cardinality(SentCommands(log, "CREATE_PROPERTY")) = 2

\* the begin request of the call was not answered, or not with status 204
\* and a session id
BeginFailed(requests) ==
    \E i \in Sent(requests, "begin") :
        ~requests[i].ok \/ requests[i].resp.status # 204 \/ requests[i].resp.sid = NoToken

\* C39: a failed begin leaves no trace.  When the begin request fails, or is
\* answered with a status other than 204, or without a session id,
\* begin_transaction raises ArcadeDBError and the session headers are
\* unchanged; insert_data whose begin fails raises ArcadeDBError too and
\* sends no INSERT and no rollback.
C39_FailedBegin ==
    [][(lastOp'.method \in {"begin_transaction", "insert_data"} /\ BeginFailed(log'))
          => /\ lastOp'.exc.kind = "ArcadeDBError"
             /\ sessionToken' = sessionToken
             /\ SentCommands(log', "INSERT") = {}
             /\ Sent(log', "rollback") = {}]_vars

\* insert_data of two rows raised after a begin answered with status 200 and
\* a session id
C39_Witness ==
    /\ lastOp.method = "insert_data" /\ lastOp.nrows = 2
    /\ lastOp.exc.kind = "ArcadeDBError"
    /\ \E i \in Sent(log, "begin") :
           log[i].ok /\ log[i].resp.status = 200 /\ log[i].resp.sid # NoToken
    /\ sessionToken = NoToken

----------------------------------------------------------------------------
(* Two clients *)

\* C40: two client instances used concurrently keep independent session and
\* transaction state under every interleaving of their operations: a session
\* token obtained by one instance is never attached to a request of the
\* other, and authentication, begin, commit or rollback (or a query) on one
\* instance changes neither the authenticated flag nor the session token of
\* the other.
C40_IndependentClients ==
    [][\A c \in Clients : lastOp'.args.client = c
          => \A d \in Clients \ {c} :
                /\ authenticated'[d] = authenticated[d]
                /\ sessionToken'[d] = sessionToken[d]
                /\ clientTxOpen'[d] = clientTxOpen[d]
                /\ \A i \in DOMAIN log' : log'[i].token \notin lastOp'.args.obtained[d]]_vars

\* both clients hold a session token of their own, and the second has just
\* sent a query carrying its token
C40_Witness ==
    /\ lastOp.method = "execute_query" /\ lastOp.args.client = 2
    /\ lastOp.args.obtained[1] # {} /\ lastOp.args.obtained[2] # {}
    /\ sessionToken[1] \in lastOp.args.obtained[1]
    /\ \E i \in DOMAIN log : log[i].kind = "command" /\ log[i].token = sessionToken[2]
                               /\ log[i].token \in lastOp.args.obtained[2]

====
